---- MODULE Spec2Model ----
(***************************************************************************)
(* Job-recommender query-to-results pipeline: structured-query extraction, *)
(* the nine provider adapters of api_client.py, the fan-out aggregator     *)
(* scrape_all_platforms, the ranking and overflow steps of                 *)
(* get_recommendation_logic and the text formatter of main.py.             *)
(*                                                                         *)
(* Python values are modelled as follows.  A str is a tuple of one-char    *)
(* strings, so slicing, lower(), replace() and the substring test `in` are *)
(* computed, not assumed.  An Optional[str] is a record [some, s].  A JSON *)
(* value decoded by response.json() is a tagged record [t, v].  A Python   *)
(* exception leaving an expression is a record with exc = TRUE.            *)
(***************************************************************************)
EXTENDS Integers, Sequences, FiniteSets, TLC

VARIABLES
    llm_chain,        \* main.py:19 the module-level chain: "unset", "None" or "chain"
    pc,               \* position of the request handler / of the operation under study
    endpoint,         \* "json" (/recommend) or "text" (/recommend-text)
    llm_reply,        \* what the text-generation backend answers to chain.invoke
    structured_query, \* main.py:44 the JobQueryStructured the chain returned
    env,              \* os.environ restricted to the variables the adapters read
    upstream,         \* per adapter, what the provider answers to the HTTP call
    launched,         \* the adapters whose coroutine was created, in creation order
    task,             \* per launched adapter, the state of its coroutine
    done_order,       \* history: adapters in the order they reached a terminal state
    client,           \* the shared httpx.AsyncClient: "none", "open" or "closed"
    closes,           \* history: how many times the client was closed
    all_jobs,         \* main.py:51 / api_client.py:484 the aggregate
    best_matches,     \* main.py:58 references (positions in all_jobs)
    other_jobs,       \* main.py:59 references (positions in all_jobs)
    outcome,          \* what the caller receives: none, a response or an HTTP error
    text_output       \* main.py:173 the rendered lines

vars == <<llm_chain, pc, endpoint, llm_reply, structured_query, env, upstream,
          launched, task, done_order, client, closes, all_jobs, best_matches,
          other_jobs, outcome, text_output>>

(***************************************************************************)
(* String literals of the source, as character tuples.                     *)
(***************************************************************************)
\* "N/A"
S_NA == <<"N","/","A">>
\* "#"
S_Hash == <<"#">>
\* ""
S_Empty == <<>>
\* "..."
S_Dots == <<".",".",".">>
\* " "
S_Space == <<" ">>
\* "<br>"
S_Br == <<"<","b","r",">">>
\* "Remote"
S_Remote == <<"R","e","m","o","t","e">>
\* "developer"
S_developer == <<"d","e","v","e","l","o","p","e","r">>
\* "India"
S_India == <<"I","n","d","i","a">>
\* "Uttar Pradesh"
S_UttarPradesh == <<"U","t","t","a","r"," ","P","r","a","d","e","s","h">>
\* "mgnrega"
S_mgnrega == <<"m","g","n","r","e","g","a">>
\* "pmkvy"
S_pmkvy == <<"p","m","k","v","y">>
\* "ncs"
S_ncs == <<"n","c","s">>
\* "MGNREGA Rural Work ("
S_MgnregaTitlePre == <<"M","G","N","R","E","G","A"," ","R","u","r","a","l"," ","W","o","r","k",
    " ","(">>
\* ")"
S_MgnregaTitlePost == <<")">>
\* "Govt. of India (MGNREGA)"
S_MgnregaCompany == <<"G","o","v","t","."," ","o","f"," ","I","n","d","i","a"," ","(","M","G","N",
    "R","E","G","A",")">>
\* ", "
S_CommaSpace == <<","," ">>
\* "https://nrega.nic.in/"
S_MgnregaUrl == <<"h","t","t","p","s",":","/","/","n","r","e","g","a",".","n","i","c",".","i","n",
    "/">>
\* "Registered Workers: "
S_MgnregaDesc1 == <<"R","e","g","i","s","t","e","r","e","d"," ","W","o","r","k","e","r","s",":",
    " ">>
\* ". Job Cards Issued: "
S_MgnregaDesc2 == <<"."," ","J","o","b"," ","C","a","r","d","s"," ","I","s","s","u","e","d",":",
    " ">>
\* ". This is statistical data."
S_MgnregaDesc3 == <<"."," ","T","h","i","s"," ","i","s"," ","s","t","a","t","i","s","t","i","c",
    "a","l"," ","d","a","t","a",".">>
\* "Find PMKVY Skilling Centers near "
S_PmkvyTitlePre == <<"F","i","n","d"," ","P","M","K","V","Y"," ","S","k","i","l","l","i","n","g",
    " ","C","e","n","t","e","r","s"," ","n","e","a","r"," ">>
\* "Govt. of India (Skill India)"
S_PmkvyCompany == <<"G","o","v","t","."," ","o","f"," ","I","n","d","i","a"," ","(","S","k","i",
    "l","l"," ","I","n","d","i","a",")">>
\* "http://pmkvyofficial.org"
S_PmkvyUrl == <<"h","t","t","p",":","/","/","p","m","k","v","y","o","f","f","i","c","i","a","l",
    ".","o","r","g">>
\* "This API shows locations for government-sponsored skill training (PMKVY). Full API integration requires OAuth."
S_PmkvyDesc == <<"T","h","i","s"," ","A","P","I"," ","s","h","o","w","s"," ","l","o","c","a","t",
    "i","o","n","s"," ","f","o","r"," ","g","o","v","e","r","n","m","e","n","t","-","s","p","o",
    "n","s","o","r","e","d"," ","s","k","i","l","l"," ","t","r","a","i","n","i","n","g"," ","(",
    "P","M","K","V","Y",")","."," ","F","u","l","l"," ","A","P","I"," ","i","n","t","e","g","r",
    "a","t","i","o","n"," ","r","e","q","u","i","r","e","s"," ","O","A","u","t","h",".">>
\* "Jobs on National Career Service Portal"
S_NcsTitle == <<"J","o","b","s"," ","o","n"," ","N","a","t","i","o","n","a","l"," ","C","a","r",
    "e","e","r"," ","S","e","r","v","i","c","e"," ","P","o","r","t","a","l">>
\* "Govt. of India (NCS)"
S_NcsCompany == <<"G","o","v","t","."," ","o","f"," ","I","n","d","i","a"," ","(","N","C","S",
    ")">>
\* "https://www.ncs.gov.in/"
S_NcsUrl == <<"h","t","t","p","s",":","/","/","w","w","w",".","n","c","s",".","g","o","v",".","i",
    "n","/">>
\* "This is a placeholder for jobs from the official Govt. of India job portal. Go to the URL to search for live vacancies."
S_NcsDesc == <<"T","h","i","s"," ","i","s"," ","a"," ","p","l","a","c","e","h","o","l","d","e",
    "r"," ","f","o","r"," ","j","o","b","s"," ","f","r","o","m"," ","t","h","e"," ","o","f","f",
    "i","c","i","a","l"," ","G","o","v","t","."," ","o","f"," ","I","n","d","i","a"," ","j","o",
    "b"," ","p","o","r","t","a","l","."," ","G","o"," ","t","o"," ","t","h","e"," ","U","R","L",
    " ","t","o"," ","s","e","a","r","c","h"," ","f","o","r"," ","l","i","v","e"," ","v","a","c",
    "a","n","c","i","e","s",".">>

(***************************************************************************)
(* Generic helpers.                                                        *)
(***************************************************************************)
Min(a, b) == IF a < b THEN a ELSE b

Range(s) == {s[i] : i \in 1..Len(s)}

\* Optional[str]
NoneStr == [some |-> FALSE, s |-> <<>>]
Some(s) == [some |-> TRUE, s |-> s]
\* Python truthiness of an Optional[str]: None and "" are falsy
Truthy(o) == o.some /\ o.s # <<>>

\* str.lower() on the characters the model uses
LowerChar(c) ==
    CASE c = "A" -> "a" [] c = "B" -> "b" [] c = "C" -> "c" [] c = "D" -> "d"
      [] c = "E" -> "e" [] c = "F" -> "f" [] c = "G" -> "g" [] c = "H" -> "h"
      [] c = "I" -> "i" [] c = "J" -> "j" [] c = "K" -> "k" [] c = "L" -> "l"
      [] c = "M" -> "m" [] c = "N" -> "n" [] c = "O" -> "o" [] c = "P" -> "p"
      [] c = "Q" -> "q" [] c = "R" -> "r" [] c = "S" -> "s" [] c = "T" -> "t"
      [] c = "U" -> "u" [] c = "V" -> "v" [] c = "W" -> "w" [] c = "X" -> "x"
      [] c = "Y" -> "y" [] c = "Z" -> "z" [] OTHER -> c
Lower(s) == [i \in 1..Len(s) |-> LowerChar(s[i])]

\* needle in hay (Python's substring test; '' is in every string)
Contains(hay, needle) ==
    \E i \in 0..(Len(hay) - Len(needle)) : SubSeq(hay, i + 1, i + Len(needle)) = needle

\* sep.join(parts)
RECURSIVE Join(_, _)
Join(sep, parts) ==
    IF parts = <<>> THEN <<>>
    ELSE IF Len(parts) = 1 THEN parts[1]
    ELSE parts[1] \o sep \o Join(sep, Tail(parts))

\* s[:n]
Slice(s, n) == SubSeq(s, 1, Min(Len(s), n))

\* s.replace(old, new), old non-empty: the leftmost occurrence is replaced,
\* then the occurrences in what follows it
RECURSIVE Replace(_, _, _)
Replace(s, old, new) ==
    LET At(i) == SubSeq(s, i, i + Len(old) - 1) = old
        starts == {i \in 1..(Len(s) - Len(old) + 1) : At(i)}
    IN IF starts = {} THEN s
       ELSE LET i == CHOOSE x \in starts : \A y \in starts : x <= y IN
            SubSeq(s, 1, i - 1) \o new
                \o Replace(SubSeq(s, i + Len(old), Len(s)), old, new)

(***************************************************************************)
(* JSON values, as response.json() decodes them.                           *)
(***************************************************************************)
JNull == [t |-> "null", v |-> <<>>]
JStr(s) == [t |-> "str", v |-> s]
JNum(n) == [t |-> "num", v |-> <<n>>]
JObj(f) == [t |-> "obj", v |-> f]
JArr(a) == [t |-> "arr", v |-> a]
\* an object with no key
JEmptyObj == [t |-> "obj", v |-> <<>>]

\* the result of an expression: a value (exc = ""), or the exception leaving it
Val(x) == [exc |-> "", val |-> x]
Raise(kind) == [exc |-> kind, val |-> JNull]

\* str.isdigit() and int() on the list positions the key paths use
IsDigit(key) == key \in {"0", "1", "2"}
ToInt(key) == CASE key = "0" -> 0 [] key = "1" -> 1 [] key = "2" -> 2

\* safe_get without line 25's `if value is not None else default`
RECURSIVE safe_get_NoneKept(_, _, _)
safe_get_NoneKept(data, key_path, default) ==
    IF key_path = <<>>
    THEN data
    ELSE LET key == Head(key_path) IN
         IF data.t = "obj"
         THEN IF key \in DOMAIN data.v
              THEN safe_get_NoneKept(data.v[key], Tail(key_path), default)
              ELSE JStr(default)
         ELSE IF data.t = "arr" /\ IsDigit(key) /\ Len(data.v) > ToInt(key)
              THEN safe_get_NoneKept(data.v[ToInt(key) + 1], Tail(key_path), default)
              ELSE JStr(default)

\* api_client.py:10-27.  key_path is given already split on '.'; the default
\* is a str.  No KeyError, TypeError or IndexError leaves the function.
RECURSIVE safe_get(_, _, _)
safe_get(data, key_path, default) ==
    IF key_path = <<>>
    THEN (IF data.t = "null" THEN JStr(default) ELSE data)
    ELSE LET key == Head(key_path) IN
         IF data.t = "obj"
         THEN IF key \in DOMAIN data.v
              THEN safe_get(data.v[key], Tail(key_path), default)
              ELSE JStr(default)
         ELSE IF data.t = "arr" /\ IsDigit(key) /\ Len(data.v) > ToInt(key)
              THEN safe_get(data.v[ToInt(key) + 1], Tail(key_path), default)
              ELSE JStr(default)

\* dict.get(key, default) as the adapters call it on decoded JSON: only a
\* dict has .get; a present key returns its value even when that is null
DictGet(data, key, default) ==
    IF data.t # "obj" THEN Raise("AttributeError")
    ELSE IF key \in DOMAIN data.v THEN Val(data.v[key]) ELSE Val(default)

\* the keys of an object, in some order, as the strings a for loop yields;
\* their text is never read (every key path has at least one key)
RECURSIVE KeysAsItems(_)
KeysAsItems(n) == IF n = 0 THEN <<>> ELSE <<JStr(<<>>)>> \o KeysAsItems(n - 1)

\* `for item in x`: the items, or TypeError when x is not iterable
Iterate(x) ==
    CASE x.t = "arr" -> Val(x.v)
      [] x.t = "obj" -> Val(KeysAsItems(Cardinality(DOMAIN x.v)))
      [] x.t = "str" -> Val([i \in 1..Len(x.v) |-> JStr(<<x.v[i]>>)])
      [] OTHER -> Raise("TypeError")

(***************************************************************************)
(* Python's str() of small numbers and of the JSON values an f-string      *)
(* interpolates.                                                           *)
(***************************************************************************)
DigitChar(d) ==
    CASE d = 0 -> "0" [] d = 1 -> "1" [] d = 2 -> "2" [] d = 3 -> "3" [] d = 4 -> "4"
      [] d = 5 -> "5" [] d = 6 -> "6" [] d = 7 -> "7" [] d = 8 -> "8" [] d = 9 -> "9"

RECURSIVE NumStr(_)
NumStr(n) == IF n < 10 THEN <<DigitChar(n)>> ELSE NumStr(n \div 10) \o <<DigitChar(n % 10)>>

\* f"{x}" for what safe_get returned (containers print as their empty form)
PyStr(x) ==
    CASE x.t = "str" -> x.v
      [] x.t = "num" -> NumStr(x.v[1])
      [] x.t = "obj" -> <<"{", "}">>
      [] x.t = "arr" -> <<"[", "]">>
      [] OTHER -> <<"N", "o", "n", "e">>

(***************************************************************************)
(* models.py:17-24 JobListing.  The constructor validates its arguments:   *)
(* title, company, location and url must be str, description_snippet a str *)
(* or None; anything else raises ValidationError.  An argument expression  *)
(* that raised makes the whole construction raise.                         *)
(***************************************************************************)
JobListing(title, company, location, url, source, description_snippet) ==
    IF description_snippet.exc # "" THEN Raise(description_snippet.exc)
    ELSE IF /\ title.t = "str" /\ company.t = "str" /\ location.t = "str" /\ url.t = "str"
            /\ description_snippet.val.t \in {"str", "null"}
         THEN Val([title |-> title.v, company |-> company.v, location |-> location.v,
                   url |-> url.v, source |-> source,
                   description_snippet |->
                       IF description_snippet.val.t = "str"
                       THEN Some(description_snippet.val.v) ELSE NoneStr])
         ELSE Raise("ValidationError")

\* x[:250], x.replace(...), x + "..." are str operations: on a number they raise
\* TypeError, on a list or dict one of them raises TypeError or AttributeError
OnStr(x, result) == IF x.t = "str" THEN Val(JStr(result)) ELSE Raise("TypeError")

(***************************************************************************)
(* The search term each adapter derives from the structured query.         *)
(***************************************************************************)
\* api_client.py:43
search_term_first(query) ==
    IF query.skills # <<>> THEN Val(JStr(query.skills[1]))
    ELSE IF query.job_titles # <<>> THEN Val(JStr(query.job_titles[1]))
    ELSE Val(JStr(S_developer))

\* api_client.py:128, 180, 274, 328: job_titles[0] has no guard
search_term_join(query) ==
    IF query.skills # <<>> THEN Val(JStr(Join(S_Space, query.skills)))
    ELSE IF query.job_titles # <<>> THEN Val(JStr(query.job_titles[1]))
    ELSE Raise("IndexError")

(***************************************************************************)
(* Configuration.  os.getenv gives None for an unset variable; `not v` and *)
(* all([...]) treat None and "" alike.                                     *)
(***************************************************************************)
EnvVars == {"ADZUNA_APP_ID", "ADZUNA_APP_KEY", "JOOBLE_API_KEY", "THE_MUSE_API_KEY",
            "USAJOBS_EMAIL", "USAJOBS_API_KEY", "RAPIDAPI_KEY", "RAPIDAPI_HOST",
            "DATA_GOV_IN_API_KEY", "API_SETU_CLIENT_ID", "API_SETU_CLIENT_SECRET",
            "NCS_API_KEY", "GROQ_API_KEY"}

getenv(e, name) == e[name]

\* all([a, b, ...]) over the values of the named variables
AllSet(e, names) == \A n \in names : Truthy(getenv(e, n))

\* the variables each adapter reads before it does anything else
RequiredEnv(a) ==
    CASE a = "remotive" -> {}
      [] a = "adzuna" -> {"ADZUNA_APP_ID", "ADZUNA_APP_KEY"}
      [] a = "jooble" -> {"JOOBLE_API_KEY"}
      [] a = "muse" -> {"THE_MUSE_API_KEY"}
      [] a = "usajobs_auth" -> {"USAJOBS_EMAIL", "USAJOBS_API_KEY"}
      [] a = "mantiks" -> {"RAPIDAPI_KEY", "RAPIDAPI_HOST"}
      [] a = "mgnrega" -> {"DATA_GOV_IN_API_KEY"}
      [] a = "pmkvy" -> {"API_SETU_CLIENT_ID", "API_SETU_CLIENT_SECRET"}
      [] a = "ncs" -> {"NCS_API_KEY"}

(***************************************************************************)
(* A coroutine's state.  st is "pending" (created, not yet run),           *)
(* "awaiting" (suspended in client.get / client.post), "returned" or       *)
(* "raised"; jobs is the list it returned; exc the exception that left it; *)
(* sent the number of outbound requests it issued.                         *)
(***************************************************************************)
Pending == [st |-> "pending", jobs |-> <<>>, exc |-> "", sent |-> 0]
Awaiting == [st |-> "awaiting", jobs |-> <<>>, exc |-> "", sent |-> 1]
Returned(jobs, sent) == [st |-> "returned", jobs |-> jobs, exc |-> "", sent |-> sent]
Raised(kind, sent) == [st |-> "raised", jobs |-> <<>>, exc |-> kind, sent |-> sent]

\* the request parameters built before the configuration is checked
StartKeyed_TermFirst(configured, term) ==
    IF term.exc # "" THEN Raised(term.exc, 0)
    ELSE IF ~configured THEN Returned(<<>>, 0)
    ELSE Awaiting

\* the common shape of a keyed HTTP adapter up to its await: configuration
\* check, then the request parameters (which may raise), then the request
StartKeyed(configured, term) ==
    IF ~configured THEN Returned(<<>>, 0)
    ELSE IF term.exc # "" THEN Raised(term.exc, 0)
    ELSE Awaiting

\* api_client.py:39-47
fetch_remotive_jobs_start(query, e) == StartKeyed(TRUE, search_term_first(query))

\* api_client.py:119-142
fetch_adzuna_jobs_start(query, e) ==
    StartKeyed(AllSet(e, {"ADZUNA_APP_ID", "ADZUNA_APP_KEY"}), search_term_join(query))

\* api_client.py:169-185
fetch_jooble_jobs_start(query, e) ==
    StartKeyed(Truthy(getenv(e, "JOOBLE_API_KEY")), search_term_join(query))

\* api_client.py:212-232: the parameters are built under `if` guards only
fetch_the_muse_jobs_start(query, e) ==
    StartKeyed(Truthy(getenv(e, "THE_MUSE_API_KEY")), Val(JNull))

\* api_client.py:259-281
fetch_usajobs_auth_start(query, e) ==
    StartKeyed(AllSet(e, {"USAJOBS_EMAIL", "USAJOBS_API_KEY"}), search_term_join(query))

\* api_client.py:313-334
fetch_mantiks_jobs_start(query, e) ==
    StartKeyed(AllSet(e, {"RAPIDAPI_KEY", "RAPIDAPI_HOST"}), search_term_join(query))

\* api_client.py:363-383: locations[0] is read under `if query.locations`
fetch_mgnrega_data_start(query, e) ==
    StartKeyed(Truthy(getenv(e, "DATA_GOV_IN_API_KEY")), Val(JNull))

\* api_client.py:412-447: no request is made; one placeholder listing
fetch_pmkvy_centers(query, e) ==
    IF ~AllSet(e, {"API_SETU_CLIENT_ID", "API_SETU_CLIENT_SECRET"}) THEN Returned(<<>>, 0)
    ELSE LET state_name == IF query.locations # <<>> THEN query.locations[1]
                           ELSE S_UttarPradesh
         IN Returned(<<[title |-> S_PmkvyTitlePre \o state_name,
                        company |-> S_PmkvyCompany,
                        location |-> state_name,
                        url |-> S_PmkvyUrl,
                        source |-> "api.setu.in",
                        description_snippet |-> Some(S_PmkvyDesc)]>>, 0)

\* api_client.py:455-473: no request is made; one placeholder listing
fetch_ncs_jobs(query, e) ==
    IF ~Truthy(getenv(e, "NCS_API_KEY")) THEN Returned(<<>>, 0)
    ELSE Returned(<<[title |-> S_NcsTitle,
                     company |-> S_NcsCompany,
                     location |-> IF query.locations # <<>> THEN query.locations[1]
                                  ELSE S_India,
                     url |-> S_NcsUrl,
                     source |-> "ncs.gov.in",
                     description_snippet |-> Some(S_NcsDesc)]>>, 0)

\* what running adapter a up to its first suspension (or its end) gives
StartOf(a, query, e) ==
    CASE a = "remotive" -> fetch_remotive_jobs_start(query, e)
      [] a = "adzuna" -> fetch_adzuna_jobs_start(query, e)
      [] a = "jooble" -> fetch_jooble_jobs_start(query, e)
      [] a = "muse" -> fetch_the_muse_jobs_start(query, e)
      [] a = "mantiks" -> fetch_mantiks_jobs_start(query, e)
      [] a = "mgnrega" -> fetch_mgnrega_data_start(query, e)
      [] a = "pmkvy" -> fetch_pmkvy_centers(query, e)
      [] a = "ncs" -> fetch_ncs_jobs(query, e)
      [] a = "usajobs_auth" -> fetch_usajobs_auth_start(query, e)

(***************************************************************************)
(* The provider's answer to the one HTTP call of an adapter:               *)
(*   net    "ok", or the httpx.RequestError that ended the call            *)
(*          ("ConnectError", "Timeout")                                    *)
(*   status the HTTP status code                                           *)
(*   body   the decoded JSON, or JBad when the body is not JSON            *)
(* (see Response below).                                                   *)
(***************************************************************************)
JBad == [t |-> "bad", v |-> <<>>]

\* response.raise_for_status(): HTTPStatusError unless the status is 2xx
raise_for_status(resp) == resp.status < 200 \/ resp.status > 299

\* response.json()
json(resp) == IF resp.body.t = "bad" THEN Raise("JSONDecodeError") ELSE Val(resp.body)

\* the state of a try block when control leaves it: the exception that ended
\* it ("" when it ran to its end) and jobs_list as appended to so far
Left(kind, jobs_list) == [exc |-> kind, jobs |-> jobs_list]

\* api_client.py:55-62
item_remotive(item) ==
    LET d == safe_get(item, <<"description">>, S_Empty) IN
    JobListing(safe_get(item, <<"title">>, S_NA),
               safe_get(item, <<"company_name">>, S_NA),
               safe_get(item, <<"candidate_required_location">>, S_Remote),
               safe_get(item, <<"url">>, S_Hash),
               "Remotive.io",
               OnStr(d, Replace(Slice(d.v, 250), S_Br, S_Space) \o S_Dots))

\* api_client.py:147-154
item_adzuna(item) ==
    JobListing(safe_get(item, <<"title">>, S_NA),
               safe_get(item, <<"company", "display_name">>, S_NA),
               safe_get(item, <<"location", "display_name">>, S_NA),
               safe_get(item, <<"redirect_url">>, S_Hash),
               "Adzuna",
               Val(safe_get(item, <<"description">>, S_Empty)))

\* api_client.py:190-197
item_jooble(item) ==
    JobListing(safe_get(item, <<"title">>, S_NA),
               safe_get(item, <<"company">>, S_NA),
               safe_get(item, <<"location">>, S_NA),
               safe_get(item, <<"link">>, S_Hash),
               "Jooble",
               Val(safe_get(item, <<"snippet">>, S_Empty)))

\* api_client.py:237-244
item_the_muse(item) ==
    LET d == safe_get(item, <<"contents">>, S_Dots) IN
    JobListing(safe_get(item, <<"name">>, S_NA),
               safe_get(item, <<"company", "name">>, S_NA),
               safe_get(item, <<"locations", "0", "name">>, S_NA),
               safe_get(item, <<"refs", "landing_page">>, S_Hash),
               "The Muse",
               OnStr(d, Slice(Replace(d.v, S_Br, S_Space), 250) \o S_Dots))

\* api_client.py:286-294: item.get(...) needs a dict; a null descriptor is
\* passed on to safe_get as it is
item_usajobs_auth(item) ==
    LET got == DictGet(item, "MatchedObjectDescriptor", JEmptyObj) IN
    IF got.exc # "" THEN Raise(got.exc)
    ELSE LET job == got.val IN
         JobListing(safe_get(job, <<"PositionTitle">>, S_NA),
                    safe_get(job, <<"DepartmentName">>, S_NA),
                    safe_get(job, <<"PositionLocationDisplay">>, S_NA),
                    safe_get(job, <<"PositionURI">>, S_Hash),
                    "USAJobs.gov",
                    Val(safe_get(job, <<"UserArea", "Details", "JobSummary">>, S_Empty)))

\* api_client.py:340-347
item_mantiks(item) ==
    LET d == safe_get(item, <<"description">>, S_Empty) IN
    JobListing(safe_get(item, <<"job_title">>, S_NA),
               safe_get(item, <<"company_name">>, S_NA),
               safe_get(item, <<"location">>, S_NA),
               safe_get(item, <<"job_url">>, S_Hash),
               "Mantiks (India)",
               OnStr(d, Slice(d.v, 250) \o S_Dots))

\* api_client.py:389-396: every field is a literal or an f-string
item_mgnrega(item) ==
    LET district == PyStr(safe_get(item, <<"district_name">>, S_NA))
        state == PyStr(safe_get(item, <<"state_name">>, S_NA))
        workers == PyStr(safe_get(item, <<"total_no_of_workers">>, S_NA))
        cards == PyStr(safe_get(item, <<"total_no_of_jobcards_issued">>, S_NA))
    IN JobListing(JStr(S_MgnregaTitlePre \o district \o S_MgnregaTitlePost),
                  JStr(S_MgnregaCompany),
                  JStr(district \o S_CommaSpace \o state),
                  JStr(S_MgnregaUrl),
                  "data.gov.in",
                  Val(JStr(S_MgnregaDesc1 \o workers \o S_MgnregaDesc2 \o cards
                           \o S_MgnregaDesc3)))

\* the JobListing one record of adapter a's payload is mapped into
ItemOf(a, item) ==
    CASE a = "remotive" -> item_remotive(item)
      [] a = "adzuna" -> item_adzuna(item)
      [] a = "jooble" -> item_jooble(item)
      [] a = "muse" -> item_the_muse(item)
      [] a = "mantiks" -> item_mantiks(item)
      [] a = "mgnrega" -> item_mgnrega(item)
      [] a = "usajobs_auth" -> item_usajobs_auth(item)

\* the list the adapter iterates over: data.get(<key>, [])
\* api_client.py:54, 146, 189, 236, 339, 387; 285 chains two .get calls
RecordsOf(a, data) ==
    CASE a = "remotive" -> DictGet(data, "jobs", JArr(<<>>))
      [] a = "adzuna" -> DictGet(data, "results", JArr(<<>>))
      [] a = "jooble" -> DictGet(data, "jobs", JArr(<<>>))
      [] a = "muse" -> DictGet(data, "results", JArr(<<>>))
      [] a = "mantiks" -> DictGet(data, "data", JArr(<<>>))
      [] a = "mgnrega" -> DictGet(data, "records", JArr(<<>>))
      [] a = "usajobs_auth" ->
            LET sr == DictGet(data, "SearchResult", JEmptyObj) IN
            IF sr.exc # "" THEN sr ELSE DictGet(sr.val, "SearchResultItems", JArr(<<>>))

\* the for loop: jobs_list.append(JobListing(...)) per record; the first
\* record whose mapping raises ends the loop with that exception, and
\* jobs_list keeps what was appended before it
RECURSIVE AppendAll(_, _, _)
AppendAll(a, items, jobs_list) ==
    IF items = <<>> THEN Left("", jobs_list)
    ELSE LET made == ItemOf(a, Head(items)) IN
         IF made.exc # "" THEN Left(made.exc, jobs_list)
         ELSE AppendAll(a, Tail(items), Append(jobs_list, made.val))

\* the statements of the try block after the status check
ParseBody(a, resp) ==
    LET data == json(resp) IN
    IF data.exc # "" THEN Left(data.exc, <<>>)
    ELSE LET recs == RecordsOf(a, data.val) IN
         IF recs.exc # "" THEN Left(recs.exc, <<>>)
         ELSE LET items == Iterate(recs.val) IN
              IF items.exc # "" THEN Left(items.exc, <<>>)
              ELSE AppendAll(a, items.val, <<>>)

\* api_client.py:46-62: Remotive compares the status itself and returns []
TryRemotive(resp) ==
    IF resp.net # "ok" THEN Left("RequestError", <<>>)
    ELSE IF resp.status # 200 THEN Left("return", <<>>)
    ELSE ParseBody("remotive", resp)

\* api_client.py:141-155, 184-198, 231-245, 280-295, 333-348, 382-397
TryKeyed(a, resp) ==
    IF resp.net # "ok" THEN Left("RequestError", <<>>)
    ELSE IF raise_for_status(resp) THEN Left("HTTPStatusError", <<>>)
    ELSE ParseBody(a, resp)

\* only `except httpx.RequestError`, as in fetch_usajobs_public
Handled_RequestErrorOnly(kind) == kind = "RequestError"

\* the except clauses that follow every try block of the launched adapters:
\* `except httpx.RequestError` then `except Exception`
\* api_client.py:66-69, 157-160, 200-203, 247-250, 297-300, 350-353, 399-402
Handled(kind) == kind = "RequestError" \/ kind # ""

\* the coroutine's end once the awaited call is over: an early return inside
\* the try, a handled exception followed by `return jobs_list`, or an
\* exception no clause handles
ResumeOf(a, resp) ==
    LET left == IF a = "remotive" THEN TryRemotive(resp) ELSE TryKeyed(a, resp) IN
    IF left.exc = "return" THEN Returned(<<>>, 1)
    ELSE IF left.exc = "" \/ Handled(left.exc) THEN Returned(left.jobs, 1)
    ELSE Raised(left.exc, 1)

(***************************************************************************)
(* The ranking step of get_recommendation_logic (main.py:57-107).  The     *)
(* buckets hold references to the JobListing objects of all_jobs; the      *)
(* model keeps a reference as the object's position in all_jobs.           *)
(***************************************************************************)
\* "entry-level"
S_entry_level == <<"e","n","t","r","y","-","l","e","v","e","l">>

\* main.py:96
MAX_BEST_MATCHES == 10

\* main.py:61
priority_sources == {"data.gov.in", "api.setu.in", "ncs.gov.in"}

\* main.py:65, 76 the scheme names
scheme_keywords == {S_mgnrega, S_pmkvy, S_ncs}

\* main.py:60
extracted_skills(query) == {Lower(s) : s \in Range(query.skills)}

\* main.py:62
is_entry_level(query) ==
    query.experience_level.some /\ query.experience_level.s = S_entry_level

\* main.py:65
has_scheme_keywords(query) == \E s \in Range(query.skills) : Lower(s) \in scheme_keywords

\* the first branch is taken by every entry-level query
BranchA_Or(query) ==
    \/ {Lower(s) : s \in Range(query.skills)} = {}
    \/ \E s \in Range(query.skills) : Lower(s) \in {S_mgnrega, S_pmkvy, S_ncs}
    \/ query.experience_level.some /\ query.experience_level.s = S_entry_level

\* main.py:67 the condition that selects the first branch
BranchA(query) ==
    (extracted_skills(query) = {} \/ has_scheme_keywords(query)) /\ is_entry_level(query)

\* main.py:74-75, 83-84
job_title_lower(job) == Lower(job.title)
job_desc_lower(job) ==
    Lower(IF Truthy(job.description_snippet) THEN job.description_snippet.s ELSE <<>>)

\* the scheme names are matched like any other skill
BestInBranchA_SchemesMatched(job, query) ==
    \/ job.source \in {"data.gov.in", "api.setu.in", "ncs.gov.in"}
    \/ \E skill \in {Lower(s) : s \in Range(query.skills)} :
          \/ Contains(Lower(job.title), skill)
          \/ Contains(Lower(IF job.description_snippet.some THEN job.description_snippet.s
                             ELSE <<>>), skill)

\* main.py:70-79 the first branch's test for one job
BestInBranchA(job, query) ==
    \/ job.source \in priority_sources
    \/ \E skill \in extracted_skills(query) :
          /\ skill \notin scheme_keywords
          /\ (Contains(job_title_lower(job), skill) \/ Contains(job_desc_lower(job), skill))

\* the second branch looks at the skills only
BestInBranchB_MatchOnly(job, query) ==
    \E skill \in {Lower(s) : s \in Range(query.skills)} :
        \/ Contains(Lower(job.title), skill)
        \/ Contains(Lower(IF job.description_snippet.some THEN job.description_snippet.s
                           ELSE <<>>), skill)

\* main.py:85-90 the second branch's test for one job
BestInBranchB(job, query) ==
    LET title_match == \E skill \in extracted_skills(query) :
                           Contains(job_title_lower(job), skill)
        desc_match == \E skill \in extracted_skills(query) :
                          Contains(job_desc_lower(job), skill)
        source_match == job.source \in priority_sources
    IN (title_match \/ desc_match) \/ (is_entry_level(query) /\ source_match)

\* main.py:67-93 the for loop over all_jobs, from position i on: each job is
\* appended to exactly one of the two lists
RECURSIVE SortLoop(_, _, _, _, _)
SortLoop(jobs, query, i, best, other) ==
    IF i > Len(jobs) THEN [best_matches |-> best, other_jobs |-> other]
    ELSE IF (IF BranchA(query) THEN BestInBranchA(jobs[i], query)
             ELSE BestInBranchB(jobs[i], query))
         THEN SortLoop(jobs, query, i + 1, Append(best, i), other)
         ELSE SortLoop(jobs, query, i + 1, best, Append(other, i))

\* the cap applies to priority-source listings too
RECURSIVE MoveLoop_StrictCap(_, _, _, _, _)
MoveLoop_StrictCap(jobs, best, k, new_best, moved_to_other) ==
    IF k > Len(best) THEN [new_best |-> new_best, moved_to_other |-> moved_to_other]
    ELSE IF Len(new_best) < 10
         THEN MoveLoop_StrictCap(jobs, best, k + 1, Append(new_best, best[k]), moved_to_other)
         ELSE MoveLoop_StrictCap(jobs, best, k + 1, new_best, Append(moved_to_other, best[k]))

\* main.py:101-105 the for loop over best_matches, from position k on
RECURSIVE MoveLoop(_, _, _, _, _)
MoveLoop(jobs, best, k, new_best, moved_to_other) ==
    IF k > Len(best) THEN [new_best |-> new_best, moved_to_other |-> moved_to_other]
    ELSE IF jobs[best[k]].source \in priority_sources \/ Len(new_best) < MAX_BEST_MATCHES
         THEN MoveLoop(jobs, best, k + 1, Append(new_best, best[k]), moved_to_other)
         ELSE MoveLoop(jobs, best, k + 1, new_best, Append(moved_to_other, best[k]))

\* main.py:97-107 without line 107: the moved listings are not appended
Overflowed_NoExtend(jobs, best, other) ==
    IF Len(best) > MAX_BEST_MATCHES
    THEN LET r == MoveLoop(jobs, best, 1, <<>>, <<>>) IN
         [best_matches |-> r.new_best, other_jobs |-> other]
    ELSE [best_matches |-> best, other_jobs |-> other]

\* no overflow step: the sorting loop's lists are final
Overflowed_Skipped(jobs, best, other) == [best_matches |-> best, other_jobs |-> other]

\* the moved listings are put in front of other_jobs
Overflowed_MovedFirst(jobs, best, other) ==
    IF Len(best) > MAX_BEST_MATCHES
    THEN LET r == MoveLoop(jobs, best, 1, <<>>, <<>>) IN
         [best_matches |-> r.new_best, other_jobs |-> r.moved_to_other \o other]
    ELSE [best_matches |-> best, other_jobs |-> other]

\* main.py:97-107
Overflowed(jobs, best, other) ==
    IF Len(best) > MAX_BEST_MATCHES
    THEN LET r == MoveLoop(jobs, best, 1, <<>>, <<>>) IN
         [best_matches |-> r.new_best, other_jobs |-> other \o r.moved_to_other]
    ELSE [best_matches |-> best, other_jobs |-> other]

(***************************************************************************)
(* Values that stand for "not in use" in a study of one stage.             *)
(***************************************************************************)
NoQuery == [skills |-> <<>>, locations |-> <<>>, experience_level |-> NoneStr,
            job_titles |-> <<>>, search_keywords |-> <<>>]
NoReply == [kind |-> "none", text |-> [t |-> "bad", v |-> <<>>]]
NoOutcome == [kind |-> "none", status |-> 0, detail |-> <<>>, structured_query |-> NoQuery,
              total_jobs_found |-> 0, best_matches |-> <<>>, other_jobs |-> <<>>]
NoEnv == [n \in EnvVars |-> NoneStr]

(***************************************************************************)
(* The ranking step as two actions: the sorting loop, then the overflow    *)
(* step.                                                                   *)
(***************************************************************************)
\* main.py:57-93
Rank ==
    /\ pc = "rank"
    /\ LET r == SortLoop(all_jobs, structured_query, 1, <<>>, <<>>) IN
          /\ best_matches' = r.best_matches
          /\ other_jobs' = r.other_jobs
    /\ pc' = "overflow"
    /\ UNCHANGED <<llm_chain, endpoint, llm_reply, structured_query, env, upstream,
                   launched, task, done_order, client, closes, all_jobs, outcome,
                   text_output>>

\* main.py:95-107
Overflow ==
    /\ pc = "overflow"
    /\ LET r == Overflowed(all_jobs, best_matches, other_jobs) IN
          /\ best_matches' = r.best_matches
          /\ other_jobs' = r.other_jobs
    /\ pc' = "respond"
    /\ UNCHANGED <<llm_chain, endpoint, llm_reply, structured_query, env, upstream,
                   launched, task, done_order, client, closes, all_jobs, outcome,
                   text_output>>

(***************************************************************************)
(* format_response_as_text (main.py:118-149).  A line is its f-string      *)
(* template k with the values interpolated into it (args: strs, src: the   *)
(* source label); the text is the sequence of lines that "\n".join joins.  *)
(***************************************************************************)
Line(k, args) == [k |-> k, args |-> args, src |-> ""]
SourceLine(source) == [k |-> "   (Source: {job.source})", args |-> <<>>, src |-> source]

NoJobsLine ==
    Line("\nNo specific jobs found. Consider checking government portals or training centers listed, or try refining your query.", <<>>)

\* main.py:131-136 the lines of one best match, numbered i
BestLines(i, job) ==
    <<Line("\n{i}. {job.title} @ {job.company}", <<NumStr(i), job.title, job.company>>),
      Line("   Location: {job.location}", <<job.location>>)>>
    \o (IF Truthy(job.description_snippet)
        THEN <<Line("   Details: {job.description_snippet}", <<job.description_snippet.s>>)>>
        ELSE <<>>)
    \o <<Line("   URL: {job.url}", <<job.url>>), SourceLine(job.source)>>

\* main.py:140-144 the lines of one other job, numbered i
OtherLines(i, job) ==
    <<Line("\n{i}. {job.title} @ {job.company}", <<NumStr(i), job.title, job.company>>),
      Line("   Location: {job.location}", <<job.location>>),
      Line("   URL: {job.url}", <<job.url>>),
      SourceLine(job.source)>>

RECURSIVE EnumBest(_, _)
EnumBest(jobs, i) ==
    IF i > Len(jobs) THEN <<>> ELSE BestLines(i, jobs[i]) \o EnumBest(jobs, i + 1)

RECURSIVE EnumOther(_, _)
EnumOther(jobs, i) ==
    IF i > Len(jobs) THEN <<>> ELSE OtherLines(i, jobs[i]) \o EnumOther(jobs, i + 1)

NoJobsFallback_Omitted(data) == <<>>

\* main.py:146-147 the closing message when both lists are empty
NoJobsFallback(data) ==
    IF data.best_matches = <<>> /\ data.other_jobs = <<>> THEN <<NoJobsLine>> ELSE <<>>

\* main.py:118-149; data is a RecommendationResponse
format_response_as_text(data) ==
    <<Line("--- Your Job Recommendation Summary ---", <<>>),
      Line("\nQuery Analysis:", <<>>),
      Line("  Skills: {', '.join(skills)}", <<Join(S_CommaSpace, data.structured_query.skills)>>),
      Line("  Locations: {', '.join(locations)}",
           <<Join(S_CommaSpace, data.structured_query.locations)>>)>>
    \o (IF Truthy(data.structured_query.experience_level)
        THEN <<Line("  Level: {experience_level}", <<data.structured_query.experience_level.s>>)>>
        ELSE <<>>)
    \o <<Line("\nTotal Results Found: {data.total_jobs_found}\n",
              <<NumStr(data.total_jobs_found)>>)>>
    \o (IF data.best_matches # <<>>
        THEN <<Line("--- Best Matches & Opportunities ---", <<>>)>>
             \o EnumBest(data.best_matches, 1)
        ELSE <<>>)
    \o (IF data.other_jobs # <<>>
        THEN <<Line("\n--- Other Relevant Jobs ---", <<>>)>> \o EnumOther(data.other_jobs, 1)
        ELSE <<>>)
    \o NoJobsFallback(data)

\* models.py:26-31 with main.py:110-115: the lists hold the listings the
\* references name
RecommendationResponse(query, jobs, best, other) ==
    [kind |-> "response", status |-> 200, detail |-> <<>>,
     structured_query |-> query,
     total_jobs_found |-> Len(jobs),
     best_matches |-> [k \in 1..Len(best) |-> jobs[best[k]]],
     other_jobs |-> [k \in 1..Len(other) |-> jobs[other[k]]]]

\* fastapi.HTTPException(status_code, detail); detail is an f-string: its
\* text, then the value interpolated into it, if any
HTTPException(status, detail) ==
    [kind |-> "error", status |-> status, detail |-> detail,
     structured_query |-> NoQuery, total_jobs_found |-> 0,
     best_matches |-> <<>>, other_jobs |-> <<>>]

\* main.py:110-115 the return of get_recommendation_logic, then main.py:163
\* (the JSON endpoint returns it) or main.py:172-174 (the text endpoint
\* renders it)
Respond ==
    /\ pc = "respond"
    /\ outcome' = RecommendationResponse(structured_query, all_jobs, best_matches, other_jobs)
    /\ text_output' = IF endpoint = "text" THEN format_response_as_text(outcome')
                      ELSE text_output
    /\ pc' = "done"
    /\ UNCHANGED <<llm_chain, endpoint, llm_reply, structured_query, env, upstream,
                   launched, task, done_order, client, closes, all_jobs, best_matches,
                   other_jobs>>

(***************************************************************************)
(* Study of the ranking step: the inputs are a structured query and an     *)
(* aggregate.  Short aggregates are all sequences over five kinds of       *)
(* listing; long ones (long enough for the overflow step) are made of      *)
(* three runs of equal listings.                                           *)
(***************************************************************************)
\* longest aggregate enumerated in full
MaxShort == 4
\* longest aggregate
MaxJobs == 12

\* "mid-level"
S_mid_level == <<"m","i","d","-","l","e","v","e","l">>
\* "Entry-Level"
S_Entry_Level == <<"E","n","t","r","y","-","L","e","v","e","l">>
\* "driver"
S_driver == <<"d","r","i","v","e","r">>
\* "Driver"
S_Driver == <<"D","r","i","v","e","r">>
\* "NCS"
S_NCS == <<"N","C","S">>
\* "Any Job"
S_AnyJob == <<"A","n","y"," ","J","o","b">>
\* "Delivery Driver Needed"
S_DeliveryDriverNeeded == <<"D","e","l","i","v","e","r","y"," ","D","r","i","v","e","r"," ","N",
    "e","e","d","e","d">>
\* "Office Assistant"
S_OfficeAssistant == <<"O","f","f","i","c","e"," ","A","s","s","i","s","t","a","n","t">>
\* "DRIVER wanted"
S_DRIVERwanted == <<"D","R","I","V","E","R"," ","w","a","n","t","e","d">>
\* "NCS DRIVER wanted"
S_NCSDRIVERwanted == <<"N","C","S"," ","D","R","I","V","E","R"," ","w","a","n","t","e","d">>
\* "Agra"
S_Agra == <<"A","g","r","a">>
\* "k"
S_key == <<"k">>

RankJob(title, description_snippet, source) ==
    [title |-> title, company |-> S_NA, location |-> S_NA, url |-> S_Hash,
     source |-> source, description_snippet |-> description_snippet]

\* a priority-source listing that matches no skill
KindP == RankJob(S_OfficeAssistant, NoneStr, "data.gov.in")
\* a priority-source listing whose title names the skill
KindPM == RankJob(S_DeliveryDriverNeeded, NoneStr, "ncs.gov.in")
\* other sources: title match, description match (it also names a scheme),
\* no match
KindM == RankJob(S_DeliveryDriverNeeded, NoneStr, "Remotive.io")
KindD == RankJob(S_OfficeAssistant, Some(S_NCSDRIVERwanted), "Adzuna")
KindN == RankJob(S_OfficeAssistant, Some(S_Empty), "Jooble")

ShortKinds == {KindP, KindPM, KindM, KindD, KindN}
LongKinds == {KindP, KindM, KindN}

RECURSIVE Rep(_, _)
Rep(x, n) == IF n = 0 THEN <<>> ELSE <<x>> \o Rep(x, n - 1)

ShortAggregates == UNION {[1..n -> ShortKinds] : n \in 0..MaxShort}

LongAggregates ==
    {Rep(r[1], r[4]) \o Rep(r[2], r[5]) \o Rep(r[3], r[6]) :
        r \in {x \in LongKinds \X LongKinds \X LongKinds
                     \X (0..MaxJobs) \X (0..MaxJobs) \X (0..MaxJobs) :
                  /\ x[4] + x[5] + x[6] >= MAX_BEST_MATCHES
                  /\ x[4] + x[5] + x[6] <= MaxJobs}}

RankSkills == {<<>>, <<S_driver>>, <<S_NCS>>, <<S_pmkvy, S_Driver>>}
RankLevels == {Some(S_entry_level), Some(S_mid_level)}

RankQueries ==
    {[skills |-> s, locations |-> <<>>, experience_level |-> l,
      job_titles |-> <<S_AnyJob>>, search_keywords |-> <<>>] :
        s \in RankSkills, l \in RankLevels}
    \cup {[skills |-> <<S_driver>>, locations |-> <<>>, experience_level |-> l,
           job_titles |-> <<S_AnyJob>>, search_keywords |-> <<>>] :
             l \in {NoneStr, Some(S_Entry_Level)}}

\* the queries tried on the long aggregates: both branches, with and without
\* the entry-level treatment of priority sources
LongQueries ==
    {q \in RankQueries :
        \/ q.skills = <<>> /\ q.experience_level = Some(S_entry_level)
        \/ q.skills = <<S_pmkvy, S_Driver>> /\ q.experience_level = Some(S_entry_level)
        \/ q.skills = <<S_driver>> /\ q.experience_level \in {Some(S_entry_level),
                                                              Some(S_mid_level)}}

RankInputs ==
    (RankQueries \X ShortAggregates) \cup (LongQueries \X LongAggregates)

InitRank ==
    /\ pc = "rank"
    /\ \E input \in RankInputs :
          /\ structured_query = input[1]
          /\ all_jobs = input[2]
    /\ best_matches = <<>>
    /\ other_jobs = <<>>
    /\ llm_chain = "chain"
    /\ endpoint = "json"
    /\ llm_reply = NoReply
    /\ env = NoEnv
    /\ upstream = <<>>
    /\ launched = <<>>
    /\ task = <<>>
    /\ done_order = <<>>
    /\ client = "closed"
    /\ closes = 1
    /\ outcome = NoOutcome
    /\ text_output = <<>>

NextRank == Rank \/ Overflow \/ Respond

SpecRank == InitRank /\ [][NextRank]_vars

(***************************************************************************)
(* The fan-out: running the launched coroutines.  asyncio runs each task   *)
(* in creation order up to its first suspension; the suspended ones are    *)
(* resumed in the order their HTTP calls end, which the network decides.   *)
(***************************************************************************)
\* api_client.py:488-506 the coroutines of scrape_all_platforms, in order
TaskOrder == <<"remotive", "adzuna", "jooble", "muse", "mantiks", "mgnrega", "pmkvy",
               "ncs", "usajobs_auth">>

Terminal == {"returned", "raised"}

\* the position of adapter a among the launched ones
PosIn(seq, a) == CHOOSE i \in 1..Len(seq) : seq[i] = a

\* adapter a runs from its first statement to its first await, or to its end
TaskStart(a) ==
    /\ pc = "gather"
    /\ task[a].st = "pending"
    /\ \A i \in 1..(PosIn(launched, a) - 1) : task[launched[i]].st # "pending"
    /\ task' = [task EXCEPT ![a] = StartOf(a, structured_query, env)]
    /\ done_order' = IF task'[a].st \in Terminal THEN Append(done_order, a) ELSE done_order
    /\ UNCHANGED <<llm_chain, pc, endpoint, llm_reply, structured_query, env, upstream,
                   launched, client, closes, all_jobs, best_matches, other_jobs, outcome,
                   text_output>>

\* the HTTP call of adapter a ends and the adapter runs to its end
TaskResume(a) ==
    /\ pc = "gather"
    /\ task[a].st = "awaiting"
    /\ \A b \in Range(launched) : task[b].st # "pending"
    /\ task' = [task EXCEPT ![a] = ResumeOf(a, upstream[a])]
    /\ done_order' = Append(done_order, a)
    /\ UNCHANGED <<llm_chain, pc, endpoint, llm_reply, structured_query, env, upstream,
                   launched, client, closes, all_jobs, best_matches, other_jobs, outcome,
                   text_output>>

(***************************************************************************)
(* Provider payloads.  A record is built from the key paths the adapter    *)
(* looks up; each looked-up field is                                       *)
(*   "ok"     present, a string                                            *)
(*   "absent" its top-level key is missing                                 *)
(*   "null"   present, null                                                *)
(*   "cut"    (nested paths) the value above it is a string                *)
(*   "hole"   (nested paths) the value above it is an empty dict or list   *)
(*   "num"    present, a number                                            *)
(* The response keeps, beside the body, the description it was built from  *)
(* (made), which no adapter reads.                                         *)
(***************************************************************************)
\* records in one payload
MaxRecords == 3

\* "Acme"
S_Acme == <<"A","c","m","e">>
\* "http://x"
S_UrlX == <<"h","t","t","p",":","/","/","x">>
\* "a<br>b"
S_DescBr == <<"a","<","b","r",">","b">>
\* "UP"
S_UP == <<"U","P">>
\* "10"
S_Ten == <<"1","0">>

Field(f, path, leaf, default) == [f |-> f, path |-> path, leaf |-> leaf, default |-> default]

\* the key paths each adapter looks up in one record, with the default it
\* passes to safe_get (api_client.py:56-61, 148-153, 191-196, 238-243,
\* 288-293, 341-346, 390-395)
ItemPaths(a) ==
    CASE a = "remotive" ->
            <<Field("title", <<"title">>, S_DeliveryDriverNeeded, S_NA),
              Field("company", <<"company_name">>, S_Acme, S_NA),
              Field("location", <<"candidate_required_location">>, S_Agra, S_Remote),
              Field("url", <<"url">>, S_UrlX, S_Hash),
              Field("description", <<"description">>, S_DescBr, S_Empty)>>
      [] a = "adzuna" ->
            <<Field("title", <<"title">>, S_DeliveryDriverNeeded, S_NA),
              Field("company", <<"company", "display_name">>, S_Acme, S_NA),
              Field("location", <<"location", "display_name">>, S_Agra, S_NA),
              Field("url", <<"redirect_url">>, S_UrlX, S_Hash),
              Field("description", <<"description">>, S_DescBr, S_Empty)>>
      [] a = "jooble" ->
            <<Field("title", <<"title">>, S_DeliveryDriverNeeded, S_NA),
              Field("company", <<"company">>, S_Acme, S_NA),
              Field("location", <<"location">>, S_Agra, S_NA),
              Field("url", <<"link">>, S_UrlX, S_Hash),
              Field("description", <<"snippet">>, S_DescBr, S_Empty)>>
      [] a = "muse" ->
            <<Field("title", <<"name">>, S_DeliveryDriverNeeded, S_NA),
              Field("company", <<"company", "name">>, S_Acme, S_NA),
              Field("location", <<"locations", "0", "name">>, S_Agra, S_NA),
              Field("url", <<"refs", "landing_page">>, S_UrlX, S_Hash),
              Field("description", <<"contents">>, S_DescBr, S_Dots)>>
      [] a = "mantiks" ->
            <<Field("title", <<"job_title">>, S_DeliveryDriverNeeded, S_NA),
              Field("company", <<"company_name">>, S_Acme, S_NA),
              Field("location", <<"location">>, S_Agra, S_NA),
              Field("url", <<"job_url">>, S_UrlX, S_Hash),
              Field("description", <<"description">>, S_DescBr, S_Empty)>>
      [] a = "mgnrega" ->
            <<Field("district", <<"district_name">>, S_Agra, S_NA),
              Field("state", <<"state_name">>, S_UP, S_NA),
              Field("workers", <<"total_no_of_workers">>, S_Ten, S_NA),
              Field("cards", <<"total_no_of_jobcards_issued">>, S_Ten, S_NA)>>
      [] a = "usajobs_auth" ->
            <<Field("title", <<"PositionTitle">>, S_DeliveryDriverNeeded, S_NA),
              Field("company", <<"DepartmentName">>, S_Acme, S_NA),
              Field("location", <<"PositionLocationDisplay">>, S_Agra, S_NA),
              Field("url", <<"PositionURI">>, S_UrlX, S_Hash),
              Field("description", <<"UserArea", "Details", "JobSummary">>, S_DescBr,
                    S_Empty)>>

Defects == {"absent", "null", "cut", "hole", "num"}

\* longest description text a provider sends
MaxText == 256

\* a text of MaxText characters that starts with a line-break tag
LongText == S_Br \o [i \in 1..(MaxText - Len(S_Br)) |-> "x"]

\* the JSON value under the keys `rest`, ending in `leaf`
RECURSIVE SubTree(_, _)
SubTree(rest, leaf) ==
    IF rest = <<>> THEN leaf
    ELSE IF IsDigit(Head(rest)) THEN JArr(<<SubTree(Tail(rest), leaf)>>)
    ELSE JObj([k \in {Head(rest)} |-> SubTree(Tail(rest), leaf)])

\* the value stored under the top-level key of a looked-up field
TopValue(field, defect) ==
    CASE defect = "ok" -> SubTree(Tail(field.path), JStr(field.leaf))
      [] defect = "null" -> SubTree(Tail(field.path), JNull)
      [] defect = "num" -> SubTree(Tail(field.path), JNum(7))
      [] defect = "long" -> SubTree(Tail(field.path), JStr(LongText))
      [] defect = "cut" -> JStr(field.leaf)
      [] defect = "hole" -> IF IsDigit(field.path[2]) THEN JArr(<<>>) ELSE JEmptyObj

\* a shape gives each looked-up field its state; the record built from it
RecordOf(a, shape) ==
    LET fields == ItemPaths(a)
        present == {i \in 1..Len(fields) : shape[i] # "absent"}
        obj == JObj([k \in {fields[i].path[1] : i \in present} |->
                        LET i == CHOOSE j \in present : fields[j].path[1] = k
                        IN TopValue(fields[i], shape[i])])
    IN IF a = "usajobs_auth"
       THEN JObj([k \in {"MatchedObjectDescriptor"} |-> obj])
       ELSE obj

\* "cut" and "hole" need a value above the field: on a top-level key the
\* field is left fine
Fit(a, shape) ==
    [i \in 1..Len(ItemPaths(a)) |->
        IF shape[i] \in {"cut", "hole"} /\ Len(ItemPaths(a)[i].path) = 1 THEN "ok"
        ELSE shape[i]]

\* shapes: every field fine; or one field, or every field, in one state
Shapes(a) ==
    LET n == Len(ItemPaths(a)) IN
    {[i \in 1..n |-> "ok"]}
    \cup {Fit(a, [i \in 1..n |-> IF i = j THEN d ELSE "ok"]) : j \in 1..n, d \in Defects}
    \cup {Fit(a, [i \in 1..n |-> d]) : d \in Defects}

\* the shapes used for payloads of several records
BasicShapes(a) ==
    LET n == Len(ItemPaths(a)) IN
    {[i \in 1..n |-> "ok"], [i \in 1..n |-> "absent"],
     [i \in 1..n |-> IF i = 1 THEN "num" ELSE "ok"]}

\* every field fine, the description a long text
LongShape(a) ==
    [i \in 1..Len(ItemPaths(a)) |->
        IF ItemPaths(a)[i].f = "description" THEN "long" ELSE "ok"]

\* the descriptions of the payloads tried
Payloads(a) ==
    {<<s>> : s \in Shapes(a) \cup {LongShape(a)}}
    \cup UNION {[1..n -> BasicShapes(a)] : n \in 0..MaxRecords}

\* the body that holds the records `made` describes, under the key(s) the
\* adapter reads (api_client.py:54, 146, 189, 236, 285, 339, 387)
BodyOf(a, made) ==
    LET records == JArr([k \in 1..Len(made) |-> RecordOf(a, made[k])]) IN
    CASE a = "remotive" -> JObj([k \in {"jobs"} |-> records])
      [] a = "adzuna" -> JObj([k \in {"results"} |-> records])
      [] a = "jooble" -> JObj([k \in {"jobs"} |-> records])
      [] a = "muse" -> JObj([k \in {"results"} |-> records])
      [] a = "mantiks" -> JObj([k \in {"data"} |-> records])
      [] a = "mgnrega" -> JObj([k \in {"records"} |-> records])
      [] a = "usajobs_auth" ->
            JObj([k \in {"SearchResult"} |->
                    JObj([k2 \in {"SearchResultItems"} |-> records])])

Response(net, status, body, made, success) ==
    [net |-> net, status |-> status, body |-> body, made |-> made,
     success |-> success]

\* a successful answer holding the records `made` describes
Success(a, made) == Response("ok", 200, BodyOf(a, made), made, TRUE)

\* answers that fail: the call itself, the status, or the shape of the body
Failures(a) ==
    {Response("ConnectError", 0, JBad, <<>>, FALSE),
     Response("Timeout", 0, JBad, <<>>, FALSE),
     Response("ok", 404, JBad, <<>>, FALSE),
     Response("ok", 500, BodyOf(a, <<[i \in 1..Len(ItemPaths(a)) |-> "ok"]>>), <<>>, FALSE),
     Response("ok", 204, JBad, <<>>, FALSE),
     Response("ok", 200, JBad, <<>>, FALSE),
     Response("ok", 200, JArr(<<>>), <<>>, FALSE),
     Response("ok", 200, JEmptyObj, <<>>, FALSE),
     Response("ok", 200, JObj([k \in DOMAIN BodyOf(a, <<>>).v |-> JNull]), <<>>, FALSE)}

HttpAdapters == {"remotive", "adzuna", "jooble", "muse", "mantiks", "mgnrega",
                 "usajobs_auth"}

(***************************************************************************)
(* Study of one adapter: the fan-out with a single coroutine, for every    *)
(* adapter.  Its inputs are the environment, the structured query and the  *)
(* provider's answer.                                                      *)
(***************************************************************************)
\* os.getenv gives None, "" or a value
EnvValues == {NoneStr, Some(S_Empty), Some(S_key)}

\* the environments that set only the variables adapter a reads
EnvFor(a) ==
    {[n \in EnvVars |-> IF n \in RequiredEnv(a) THEN f[n] ELSE NoneStr] :
        f \in [RequiredEnv(a) -> EnvValues]}

FullEnv(as) ==
    [n \in EnvVars |-> IF \E a \in as : n \in RequiredEnv(a) THEN Some(S_key) ELSE NoneStr]

Query(skills, locations, level, job_titles) ==
    [skills |-> skills, locations |-> locations, experience_level |-> level,
     job_titles |-> job_titles, search_keywords |-> <<>>]

AdapterQueries ==
    {Query(s, l, Some(S_entry_level), t) :
        s \in {<<>>, <<S_driver>>}, l \in {<<>>, <<S_Agra>>}, t \in {<<>>, <<S_AnyJob>>}}

AllOk(a) == [i \in 1..Len(ItemPaths(a)) |-> "ok"]

\* every configuration and query against a few answers, and the full
\* configuration with one query against every answer
AdapterInputs(a) ==
    IF a \in HttpAdapters
    THEN (EnvFor(a) \X AdapterQueries
             \X {Response("ConnectError", 0, JBad, <<>>, FALSE),
                 Response("ok", 500, BodyOf(a, <<AllOk(a)>>), <<>>, FALSE),
                 Success(a, <<AllOk(a)>>)})
         \cup ({FullEnv({a})} \X {Query(<<S_driver>>, <<S_Agra>>, Some(S_entry_level),
                                        <<S_AnyJob>>)}
                  \X ({Success(a, m) : m \in Payloads(a)} \cup Failures(a)))
    ELSE EnvFor(a) \X AdapterQueries \X {Response("ok", 200, JBad, <<>>, FALSE)}

InitAdapter ==
    /\ pc = "gather"
    /\ \E a \in Range(TaskOrder) :
          /\ launched = <<a>>
          /\ task = [b \in {a} |-> Pending]
          /\ \E input \in AdapterInputs(a) :
                /\ env = input[1]
                /\ structured_query = input[2]
                /\ upstream = [b \in {a} |-> input[3]]
    /\ done_order = <<>>
    /\ client = "open"
    /\ closes = 0
    /\ llm_chain = "chain"
    /\ endpoint = "json"
    /\ llm_reply = NoReply
    /\ all_jobs = <<>>
    /\ best_matches = <<>>
    /\ other_jobs = <<>>
    /\ outcome = NoOutcome
    /\ text_output = <<>>

NextAdapter == \E a \in Range(launched) : TaskStart(a) \/ TaskResume(a)

SpecAdapter == InitAdapter /\ [][NextAdapter]_vars

(***************************************************************************)
(* Structured-query extraction: chain.invoke (main.py:44) runs             *)
(* prompt | llm | PydanticOutputParser(JobQueryStructured)                 *)
(* (llm_parser.py:22, 55).  The backend either cannot be reached or        *)
(* answers with a text; the parser decodes the text as JSON and validates  *)
(* it against the fields of JobQueryStructured.                            *)
(***************************************************************************)
Unreachable == [kind |-> "unreachable", text |-> JBad]
Reply(data) == [kind |-> "text", text |-> data]

\* a JSON list of strings
IsStrList(x) == x.t = "arr" /\ \A i \in 1..Len(x.v) : x.v[i].t = "str"
Strs(x) == [i \in 1..Len(x.v) |-> x.v[i].v]

\* models.py:9-15: skills, locations, job_titles and search_keywords are
\* required List[str] fields, of any length; experience_level is an
\* Optional[str] that defaults to None
JobQueryStructured(data) ==
    IF data.t # "obj" THEN Raise("ValidationError")
    ELSE IF \E k \in {"skills", "locations", "job_titles", "search_keywords"} :
               k \notin DOMAIN data.v \/ ~IsStrList(data.v[k])
    THEN Raise("ValidationError")
    ELSE IF "experience_level" \in DOMAIN data.v
            /\ data.v["experience_level"].t \notin {"str", "null"}
    THEN Raise("ValidationError")
    ELSE Val([skills |-> Strs(data.v["skills"]),
              locations |-> Strs(data.v["locations"]),
              experience_level |->
                  IF "experience_level" \in DOMAIN data.v
                     /\ data.v["experience_level"].t = "str"
                  THEN Some(data.v["experience_level"].v) ELSE NoneStr,
              job_titles |-> Strs(data.v["job_titles"]),
              search_keywords |-> Strs(data.v["search_keywords"])])

\* llm_parser.py:55 the chain: the call to the backend, then the parser
chain_invoke(reply) ==
    IF reply.kind = "unreachable" THEN Raise("APIConnectionError")
    ELSE IF reply.text.t = "bad" THEN Raise("OutputParserException")
    ELSE JobQueryStructured(reply.text)

(***************************************************************************)
(* The aggregator scrape_all_platforms (api_client.py:480-516).            *)
(***************************************************************************)
\* the results in the order the tasks ended
gather_AsCompleted(tasks, t, order) ==
    [done |-> \A a \in Range(tasks) : t[a].st \in {"returned", "raised"},
     exc |-> "",
     results_list |-> [i \in 1..Len(order) |-> t[order[i]]]]

\* the first exception ends the wait and is raised
gather_FailFast(tasks, t, order) ==
    [done |-> \/ \A a \in Range(tasks) : t[a].st \in {"returned", "raised"}
              \/ \E a \in Range(tasks) : t[a].st = "raised",
     exc |-> IF \E a \in Range(tasks) : t[a].st = "raised"
             THEN t[CHOOSE a \in Range(tasks) : t[a].st = "raised"].exc ELSE "",
     results_list |-> [i \in 1..Len(tasks) |-> t[tasks[i]]]]

\* every task is awaited, then the first exception in task order is raised
gather_Reraise(tasks, t, order) ==
    [done |-> \A a \in Range(tasks) : t[a].st \in {"returned", "raised"},
     exc |-> IF \E i \in 1..Len(tasks) : t[tasks[i]].st = "raised"
             THEN t[tasks[CHOOSE i \in 1..Len(tasks) :
                              /\ t[tasks[i]].st = "raised"
                              /\ \A j \in 1..(i - 1) : t[tasks[j]].st # "raised"]].exc
             ELSE "",
     results_list |-> [i \in 1..Len(tasks) |-> t[tasks[i]]]]

\* api_client.py:508 asyncio.gather(*tasks, return_exceptions=True): it is
\* done when every task is; it raises nothing; results_list holds each
\* task's list or exception at the task's position in `tasks`
gather(tasks, t, order) ==
    [done |-> \A a \in Range(tasks) : t[a].st \in Terminal,
     exc |-> "",
     results_list |-> [i \in 1..Len(tasks) |-> t[tasks[i]]]]

\* each list replaces all_jobs
RECURSIVE Extend_Assign(_, _)
Extend_Assign(results_list, jobs) ==
    IF results_list = <<>> THEN jobs
    ELSE IF Head(results_list).st = "returned"
         THEN Extend_Assign(Tail(results_list), Head(results_list).jobs)
         ELSE Extend_Assign(Tail(results_list), jobs)

\* api_client.py:510-514 the fold: a list extends all_jobs, an exception is
\* printed
RECURSIVE Extend(_, _)
Extend(results_list, jobs) ==
    IF results_list = <<>> THEN jobs
    ELSE IF Head(results_list).st = "returned"
         THEN Extend(Tail(results_list), jobs \o Head(results_list).jobs)
         ELSE Extend(Tail(results_list), jobs)

(***************************************************************************)
(* The request pipeline.                                                   *)
(***************************************************************************)
\* main.py:20-32 the lifespan hook at startup: without GROQ_API_KEY the
\* server does not start; get_llm_chain() either gives the chain or raises,
\* and then llm_chain stays None
Lifespan(chain_ok) ==
    /\ pc = "startup"
    /\ IF ~Truthy(getenv(env, "GROQ_API_KEY"))
       THEN pc' = "down" /\ UNCHANGED llm_chain
       ELSE pc' = "idle" /\ llm_chain' = IF chain_ok THEN "chain" ELSE "None"
    /\ UNCHANGED <<endpoint, llm_reply, structured_query, env, upstream, launched, task,
                   done_order, client, closes, all_jobs, best_matches, other_jobs,
                   outcome, text_output>>

\* the endpoint goes on without looking at llm_chain
Request_Unguarded(ep) ==
    /\ pc = "idle"
    /\ endpoint' = ep
    /\ pc' = "extract"
    /\ UNCHANGED <<llm_chain, llm_reply, structured_query, env, upstream, launched, task,
                   done_order, client, closes, all_jobs, best_matches, other_jobs,
                   outcome, text_output>>

\* main.py:159-161, 168-170 a request arrives at one of the two endpoints
Request(ep) ==
    /\ pc = "idle"
    /\ endpoint' = ep
    /\ IF llm_chain = "None"
       THEN pc' = "done" /\ outcome' = HTTPException(500, <<"LLM not ready.">>)
       ELSE pc' = "extract" /\ UNCHANGED outcome
    /\ UNCHANGED <<llm_chain, llm_reply, structured_query, env, upstream, launched, task,
                   done_order, client, closes, all_jobs, best_matches, other_jobs,
                   text_output>>

\* a failed extraction is replaced by an empty query
Extract_GoesOn ==
    /\ pc = "extract"
    /\ pc' = "scrape"
    /\ structured_query' =
          IF chain_invoke(llm_reply).exc # "" THEN Query(<<>>, <<>>, Some(S_entry_level), <<>>)
          ELSE chain_invoke(llm_reply).val
    /\ UNCHANGED <<llm_chain, endpoint, llm_reply, env, upstream, launched, task,
                   done_order, client, closes, all_jobs, best_matches, other_jobs,
                   outcome, text_output>>

\* main.py:43-48
Extract ==
    /\ pc = "extract"
    /\ LET r == chain_invoke(llm_reply) IN
       IF r.exc # ""
       THEN /\ pc' = "done"
            /\ outcome' = HTTPException(500, <<"Error parsing query with LLM: ", r.exc>>)
            /\ UNCHANGED structured_query
       ELSE /\ pc' = "scrape"
            /\ structured_query' = r.val
            /\ UNCHANGED outcome
    /\ UNCHANGED <<llm_chain, endpoint, llm_reply, env, upstream, launched, task,
                   done_order, client, closes, all_jobs, best_matches, other_jobs,
                   text_output>>

\* api_client.py:484-508 the client is opened, the nine coroutines are
\* created and handed to gather
Scrape ==
    /\ pc = "scrape"
    /\ client' = "open"
    /\ launched' = TaskOrder
    /\ task' = [a \in Range(TaskOrder) |-> Pending]
    /\ pc' = "gather"
    /\ UNCHANGED <<llm_chain, endpoint, llm_reply, structured_query, env, upstream,
                   done_order, closes, all_jobs, best_matches, other_jobs, outcome,
                   text_output>>

\* the client is not used as a context manager: nothing closes it
Gathered_ClientLeftOpen ==
    /\ pc = "gather"
    /\ LET g == gather(launched, task, done_order) IN
          /\ g.done
          /\ pc' = "rank"
          /\ all_jobs' = Extend(g.results_list, <<>>)
    /\ UNCHANGED <<llm_chain, endpoint, llm_reply, structured_query, env, upstream,
                   launched, task, done_order, client, closes, best_matches, other_jobs,
                   outcome, text_output>>

\* api_client.py:508-516 gather is done; leaving the `async with` block
\* closes the client, on return and on an exception alike; main.py:50-55 an
\* exception from scrape_all_platforms becomes an HTTP error
Gathered ==
    /\ pc = "gather"
    /\ LET g == gather(launched, task, done_order) IN
          /\ g.done
          /\ IF g.exc # ""
             THEN /\ pc' = "done"
                  /\ outcome' = HTTPException(500, <<"Error during job API fetching: ", g.exc>>)
                  /\ UNCHANGED all_jobs
             ELSE /\ pc' = "rank"
                  /\ all_jobs' = Extend(g.results_list, <<>>)
                  /\ UNCHANGED outcome
    /\ client' = "closed"
    /\ closes' = closes + 1
    /\ UNCHANGED <<llm_chain, endpoint, llm_reply, structured_query, env, upstream,
                   launched, task, done_order, best_matches, other_jobs, text_output>>

\* every entity of a request is discarded once the response is sent; the
\* next request starts from nothing but llm_chain
NextRequest ==
    /\ pc = "done"
    /\ pc' = "idle"
    /\ structured_query' = NoQuery
    /\ launched' = <<>>
    /\ task' = <<>>
    /\ done_order' = <<>>
    /\ client' = "none"
    /\ closes' = 0
    /\ all_jobs' = <<>>
    /\ best_matches' = <<>>
    /\ other_jobs' = <<>>
    /\ outcome' = NoOutcome
    /\ text_output' = <<>>
    /\ UNCHANGED <<llm_chain, endpoint, llm_reply, env, upstream>>

(***************************************************************************)
(* Inputs of the pipeline: the backend's reply, the environment and the    *)
(* providers' answers.                                                     *)
(***************************************************************************)
\* keyed adapters configured at once
MaxConfigured == 1

\* the JSON text of a structured query
StrListJson(ss) == JArr([i \in 1..Len(ss) |-> JStr(ss[i])])
QueryJson(q) ==
    JObj([k \in {"skills", "locations", "experience_level", "job_titles",
                 "search_keywords"} |->
            CASE k = "skills" -> StrListJson(q.skills)
              [] k = "locations" -> StrListJson(q.locations)
              [] k = "experience_level" ->
                    IF q.experience_level.some THEN JStr(q.experience_level.s) ELSE JNull
              [] k = "job_titles" -> StrListJson(q.job_titles)
              [] k = "search_keywords" -> StrListJson(q.search_keywords)])

\* replies the parser accepts
GoodReplies ==
    {Reply(QueryJson(Query(<<>>, <<>>, Some(S_entry_level), <<>>))),
     Reply(QueryJson(Query(<<>>, <<S_Agra>>, Some(S_entry_level), <<S_AnyJob>>))),
     Reply(QueryJson(Query(<<S_driver>>, <<>>, Some(S_mid_level), <<S_Driver>>)))}

\* replies it rejects: no answer, no JSON, a required field missing, a field
\* of the wrong type
BadReplies ==
    {Unreachable,
     Reply(JBad),
     Reply(JObj([k \in {"skills", "locations", "search_keywords"} |-> JArr(<<>>)])),
     Reply(JObj([k \in {"skills", "locations", "job_titles", "search_keywords"} |->
                    IF k = "skills" THEN JStr(S_driver) ELSE JArr(<<>>)]))}

KeyedAdapters == Range(TaskOrder) \ {"remotive"}

\* the environment that configures the adapters in `as`, and the server
PipelineEnv(groq, as) ==
    [n \in EnvVars |->
        IF n = "GROQ_API_KEY" THEN groq
        ELSE IF \E a \in as : n \in RequiredEnv(a) THEN Some(S_key) ELSE NoneStr]

\* a record whose first looked-up field holds a number
NumFirst(a) == [i \in 1..Len(ItemPaths(a)) |-> IF i = 1 THEN "num" ELSE "ok"]

\* the answers tried for an adapter that makes its call: the call fails, the
\* status is an error, no record, two records, three records of which the
\* second holds a number where a string is expected
PipelineResponses(a) ==
    {Response("ConnectError", 0, JBad, <<>>, FALSE),
     Response("ok", 500, JBad, <<>>, FALSE),
     Success(a, <<>>),
     Success(a, <<AllOk(a), AllOk(a)>>),
     Success(a, <<AllOk(a), NumFirst(a), AllOk(a)>>)}

\* the answers of all HTTP adapters: those of the adapters in `calling`
\* vary, the others are never read
Upstreams(calling) ==
    {[a \in HttpAdapters |->
         IF a \in calling THEN f[a] ELSE Response("ConnectError", 0, JBad, <<>>, FALSE)] :
        f \in [calling -> UNION {PipelineResponses(a) : a \in calling}]}

Init ==
    /\ pc = "startup"
    /\ llm_chain = "None"
    /\ endpoint = "json"
    /\ \E as \in {s \in SUBSET KeyedAdapters : Cardinality(s) <= MaxConfigured} :
          \/ /\ llm_reply \in GoodReplies
             /\ env = PipelineEnv(Some(S_key), as)
             /\ upstream \in
                   {u \in Upstreams((as \cup {"remotive"}) \cap HttpAdapters) :
                       \A a \in (as \cup {"remotive"}) \cap HttpAdapters :
                           u[a] \in PipelineResponses(a)}
          \/ /\ as = {}
             /\ llm_reply \in BadReplies
             /\ env \in {PipelineEnv(Some(S_key), as), PipelineEnv(NoneStr, as)}
             /\ upstream \in Upstreams({})
    /\ structured_query = NoQuery
    /\ launched = <<>>
    /\ task = <<>>
    /\ done_order = <<>>
    /\ client = "none"
    /\ closes = 0
    /\ all_jobs = <<>>
    /\ best_matches = <<>>
    /\ other_jobs = <<>>
    /\ outcome = NoOutcome
    /\ text_output = <<>>

Next ==
    \/ \E chain_ok \in BOOLEAN : Lifespan(chain_ok)
    \/ \E ep \in {"json", "text"} : Request(ep)
    \/ Extract
    \/ Scrape
    \/ \E a \in Range(launched) : TaskStart(a)
    \/ \E a \in Range(launched) : TaskResume(a)
    \/ Gathered
    \/ Rank
    \/ Overflow
    \/ Respond
    \/ NextRequest

Spec == Init /\ [][Next]_vars

(***************************************************************************)
(* Properties.                                                             *)
(***************************************************************************)
\* how many times reference i occurs in the list s
Occurrences(s, i) == Cardinality({k \in 1..Len(s) : s[k] = i})

\* the best-match candidates: best_matches as the sorting loop leaves it
Candidates == SortLoop(all_jobs, structured_query, 1, <<>>, <<>>).best_matches

IsPriority(i) == all_jobs[i].source \in priority_sources

\* C1: once the sorting loop has run, and again after the overflow step and
\* in the response, every listing of the aggregate is in exactly one of
\* best_matches and other_jobs, and the two lengths add up to
\* total_jobs_found, the length of the aggregate.
C1_Partition ==
    /\ pc \in {"overflow", "respond", "done"} =>
          /\ \A i \in 1..Len(all_jobs) :
                Occurrences(best_matches, i) + Occurrences(other_jobs, i) = 1
          /\ Len(best_matches) + Len(other_jobs) = Len(all_jobs)
    /\ outcome.kind = "response" =>
          /\ outcome.total_jobs_found = Len(all_jobs)
          /\ Len(outcome.best_matches) + Len(outcome.other_jobs) = outcome.total_jobs_found
          /\ outcome.best_matches = [k \in 1..Len(best_matches) |-> all_jobs[best_matches[k]]]
          /\ outcome.other_jobs = [k \in 1..Len(other_jobs) |-> all_jobs[other_jobs[k]]]

\* a response whose overflow step moved a candidate to other_jobs
C1_Witness ==
    /\ outcome.kind = "response"
    /\ Len(Candidates) > MAX_BEST_MATCHES
    /\ \E k \in 1..Len(other_jobs) : other_jobs[k] \in Range(Candidates)
    /\ best_matches # <<>>

Unconfigured(a) ==
    \E n \in RequiredEnv(a) : env[n] = NoneStr \/ env[n] = Some(S_Empty)

\* C6: an adapter that requires configuration and misses some of it returns
\* an empty list, raises nothing and issues no outbound request, whatever
\* the structured query.
C6_Unconfigured ==
    \A a \in Range(launched) :
        (Unconfigured(a) /\ task[a].st # "pending") => task[a] = Returned(<<>>, 0)

\* Adzuna with an empty key and a query with no skill and no job title
C6_Witness ==
    /\ "adzuna" \in Range(launched)
    /\ env["ADZUNA_APP_ID"] = Some(S_key)
    /\ env["ADZUNA_APP_KEY"] = Some(S_Empty)
    /\ structured_query.skills = <<>>
    /\ structured_query.job_titles = <<>>
    /\ structured_query.locations = <<>>
    /\ task["adzuna"].st = "returned"

\* the HTTP call of adapter a failed, or was answered with a non-2xx status
CallFailed(a) ==
    upstream[a].net # "ok" \/ upstream[a].status < 200 \/ upstream[a].status > 299

\* C7: an adapter whose HTTP call ends in a network failure or a non-success
\* status returns an empty list; no exception reaches the aggregator.
C7_FailureAbsorbed ==
    \A a \in Range(launched) \cap HttpAdapters :
        (task[a].st \in Terminal /\ task[a].sent = 1 /\ CallFailed(a))
            => task[a] = Returned(<<>>, 1)

\* a keyed adapter that made its call, got status 500 and returned
C7_Witness ==
    \E a \in Range(launched) \cap (HttpAdapters \ {"remotive"}) :
        /\ task[a].st = "returned"
        /\ task[a].sent = 1
        /\ upstream[a].net = "ok"
        /\ upstream[a].status = 500

\* the states of a looked-up field the claim C8 speaks of
MissingStates == {"absent", "null", "cut", "hole"}

\* what the adapter read for field i of a record of shape s: the text the
\* provider sent, or the default the adapter passes to safe_get
Read(a, s, i) == IF s[i] = "ok" THEN ItemPaths(a)[i].leaf ELSE ItemPaths(a)[i].default

\* the source label of each adapter (api_client.py:60, 152, 195, 242, 292, 345, 394, 443, 471)
SourceOf(a) ==
    CASE a = "remotive" -> "Remotive.io" [] a = "adzuna" -> "Adzuna"
      [] a = "jooble" -> "Jooble" [] a = "muse" -> "The Muse"
      [] a = "mantiks" -> "Mantiks (India)" [] a = "mgnrega" -> "data.gov.in"
      [] a = "usajobs_auth" -> "USAJobs.gov" [] a = "pmkvy" -> "api.setu.in"
      [] a = "ncs" -> "ncs.gov.in"

\* listing job is what a record of shape s must be mapped into
MappedFrom(a, s, job) ==
    /\ job.source = SourceOf(a)
    /\ IF a = "mgnrega"
       THEN /\ job.title = S_MgnregaTitlePre \o Read(a, s, 1) \o S_MgnregaTitlePost
            /\ job.company = S_MgnregaCompany
            /\ job.location = Read(a, s, 1) \o S_CommaSpace \o Read(a, s, 2)
            /\ job.url = S_MgnregaUrl
       ELSE /\ job.title = Read(a, s, 1)
            /\ job.company = Read(a, s, 2)
            /\ job.location = Read(a, s, 3)
            /\ job.url = Read(a, s, 4)

\* C8: from a successful answer of N records whose looked-up fields are
\* strings, absent, null or below a missing or non-container value, the
\* adapter returns exactly N listings, each with the provider's text or the
\* adapter's default in title, company, location and url, and its source.
C8_DefaultsFilled ==
    \A a \in Range(launched) \cap HttpAdapters :
        (/\ task[a].st \in Terminal
         /\ task[a].sent = 1
         /\ upstream[a].success
         /\ \A k \in 1..Len(upstream[a].made) :
               \A i \in 1..Len(upstream[a].made[k]) :
                   upstream[a].made[k][i] \in MissingStates \cup {"ok"})
        => /\ task[a].st = "returned"
           /\ Len(task[a].jobs) = Len(upstream[a].made)
           /\ \A k \in 1..Len(upstream[a].made) :
                 MappedFrom(a, upstream[a].made[k], task[a].jobs[k])

\* The Muse answered one record whose 'locations' list is empty, and the
\* adapter returned one listing
C8_Witness ==
    /\ "muse" \in Range(launched)
    /\ task["muse"].st = "returned"
    /\ upstream["muse"].success
    /\ Len(upstream["muse"].made) = 1
    /\ upstream["muse"].made[1][3] = "hole"
    /\ Len(task["muse"].jobs) = 1

(***************************************************************************)
(* Properties of the aggregator and of the whole request (Spec).           *)
(***************************************************************************)
\* scrape_all_platforms has returned to get_recommendation_logic
Scraped == launched # <<>> /\ pc \in {"rank", "overflow", "respond", "done"}

Raisers == {a \in Range(launched) : task[a].st = "raised"}
Returners == {a \in Range(launched) : task[a].st = "returned"}

RECURSIVE SumLen(_)
SumLen(as) ==
    IF as = {} THEN 0
    ELSE LET a == CHOOSE x \in as : TRUE IN Len(task[a].jobs) + SumLen(as \ {a})

\* the listings of the returned lists, in the order `order` gives the adapters
RECURSIVE InOrder(_)
InOrder(order) ==
    IF order = <<>> THEN <<>>
    ELSE (IF task[Head(order)].st = "returned" THEN task[Head(order)].jobs ELSE <<>>)
         \o InOrder(Tail(order))

\* C3: whatever each adapter did (returned listings, returned nothing, or
\* raised), the aggregate is as long as the returned lists together, a
\* raising adapter counting for nothing; every listing of a returning adapter
\* is in the aggregate as often as in the adapter's list, and the aggregate
\* holds nothing else.  The response reports that length.
C3_AggregateLength ==
    Scraped =>
        /\ Len(all_jobs) = SumLen(Returners)
        /\ \A a \in Returners : \A j \in Range(task[a].jobs) :
              Cardinality({k \in 1..Len(all_jobs) : all_jobs[k] = j})
                  = Cardinality({k \in 1..Len(task[a].jobs) : task[a].jobs[k] = j})
        /\ \A k \in 1..Len(all_jobs) :
              \E a \in Returners : all_jobs[k] \in Range(task[a].jobs)
        /\ (outcome.kind = "response" => outcome.total_jobs_found = SumLen(Returners))

\* an adapter raised, another returned listings and a third returned nothing
C3_Witness ==
    /\ Scraped
    /\ Raisers # {}
    /\ \E a \in Returners : Len(task[a].jobs) = 2
    /\ \E a \in Returners : task[a].jobs = <<>>
    /\ Len(all_jobs) = 2

\* C4 as stated: the aggregate lists the adapters' listings in the order in
\* which the adapters finished.
C4_CompletionOrder == Scraped => all_jobs = InOrder(done_order)

\* C4: the aggregate lists the adapters' listings in the order in which the
\* adapters were handed to gather, whatever the order in which they finished:
\* two runs that differ only in the interleaving give the same aggregate.
C4_TaskOrder == Scraped => all_jobs = InOrder(launched)

\* an adapter later in the task list finished first, and both returned
\* listings
C4_Witness ==
    /\ Scraped
    /\ \E i, j \in 1..Len(done_order) :
          /\ i < j
          /\ PosIn(launched, done_order[i]) > PosIn(launched, done_order[j])
          /\ task[done_order[i]].st = "returned" /\ task[done_order[i]].jobs # <<>>
          /\ task[done_order[j]].st = "returned" /\ task[done_order[j]].jobs # <<>>

\* C5: when scrape_all_platforms has returned, every launched adapter has
\* returned or raised; an adapter that made its call ended as its own
\* response dictates although a sibling raised; no listing comes from an
\* adapter that raised; and the request does not fail.
C5_SiblingsFinish ==
    Scraped =>
        /\ \A a \in Range(launched) : task[a].st \in Terminal
        /\ \A a \in Range(launched) \cap HttpAdapters :
              StartOf(a, structured_query, env).st = "awaiting"
                  => task[a] = ResumeOf(a, upstream[a])
        /\ \A a \in Raisers : \A k \in 1..Len(all_jobs) : all_jobs[k].source # SourceOf(a)
        /\ outcome.kind # "error"

\* an adapter raised before a sibling's call ended, the sibling returned
\* listings and the response was sent
C5_Witness ==
    /\ pc = "done"
    /\ outcome.kind = "response"
    /\ \E a \in Raisers : \E b \in Returners :
          /\ PosIn(done_order, a) < PosIn(done_order, b)
          /\ task[b].sent = 1
          /\ task[b].jobs # <<>>
          /\ \E k \in 1..Len(all_jobs) : all_jobs[k].source = SourceOf(b)

\* C9: a structured query the extractor hands to the pipeline names at least
\* one job title.
C9_JobTitlesNonEmpty ==
    pc \in {"scrape", "gather", "rank", "overflow", "respond"}
        => structured_query.job_titles # <<>>

\* no adapter contributed a listing
NothingContributed ==
    \A a \in Range(launched) : task[a].st = "raised" \/ task[a].jobs = <<>>

\* C10: when the query was extracted and none of the nine adapters
\* contributed a listing, the request ends with a response and not an error,
\* the response reports no job and two empty lists, and its text form has the
\* "No specific jobs found" line.
C10_EmptyResponse ==
    (pc = "done" /\ Len(launched) = 9 /\ NothingContributed) =>
        /\ outcome.kind = "response"
        /\ outcome.total_jobs_found = 0
        /\ outcome.best_matches = <<>>
        /\ outcome.other_jobs = <<>>
        /\ \E i \in 1..Len(format_response_as_text(outcome)) :
              format_response_as_text(outcome)[i].k
                  = "\nNo specific jobs found. Consider checking government portals or training centers listed, or try refining your query."
        /\ (endpoint = "text" => text_output = format_response_as_text(outcome))

\* the text endpoint answered a request in which one adapter was
\* unconfigured, one failed with a handled error and one raised
C10_Witness ==
    /\ pc = "done"
    /\ endpoint = "text"
    /\ Len(launched) = 9
    /\ NothingContributed
    /\ Raisers # {}
    /\ \E a \in Returners \cap HttpAdapters : task[a].sent = 1 /\ CallFailed(a)
    /\ \E a \in Returners : Unconfigured(a)
    /\ text_output # <<>>

(***************************************************************************)
(* The two sorting branches (SpecRank).                                    *)
(***************************************************************************)
\* the listing at position i is from a priority source
FromPriority(i) == all_jobs[i].source \in {"data.gov.in", "api.setu.in", "ncs.gov.in"}

\* the lower-cased title or description of the listing at position i
\* contains the lower-cased skill s
Mentions(i, s) ==
    \/ Contains(Lower(all_jobs[i].title), Lower(s))
    \/ /\ all_jobs[i].description_snippet.some
       /\ Contains(Lower(all_jobs[i].description_snippet.s), Lower(s))
    \/ Lower(s) = <<>>

SchemeNames == {S_mgnrega, S_pmkvy, S_ncs}

\* the query is entry-level and has no skill or names a scheme as a skill
EntryLevelSchemeQuery ==
    /\ structured_query.experience_level = Some(S_entry_level)
    /\ \/ structured_query.skills = <<>>
       \/ \E s \in Range(structured_query.skills) : Lower(s) \in SchemeNames

\* C11: for an entry-level query with no skill or with a scheme name among
\* its skills, the sorting loop puts every priority-source listing in
\* best_matches, and a listing of another source in best_matches exactly when
\* a skill other than the scheme names occurs, lower-cased, in its lower-cased
\* title or description; with no skill, that is no listing of another source.
C11_BranchA ==
    (pc = "overflow" /\ EntryLevelSchemeQuery) =>
        \A i \in 1..Len(all_jobs) :
            /\ FromPriority(i) => i \in Range(best_matches)
            /\ ~FromPriority(i) =>
                  (i \in Range(best_matches)
                     <=> \E s \in Range(structured_query.skills) :
                            Lower(s) \notin SchemeNames /\ Mentions(i, s))
            /\ (structured_query.skills = <<>> /\ ~FromPriority(i))
                  => i \in Range(other_jobs)

\* a scheme name and another skill: a priority-source listing and a matching
\* listing of another source in best_matches, a listing that mentions no
\* skill in other_jobs
C11_Witness ==
    /\ pc = "overflow"
    /\ EntryLevelSchemeQuery
    /\ \E s \in Range(structured_query.skills) : Lower(s) \notin SchemeNames
    /\ \E i \in Range(best_matches) : FromPriority(i)
    /\ \E i \in Range(best_matches) : ~FromPriority(i)
    /\ \E i \in Range(other_jobs) : all_jobs[i].description_snippet = Some(S_Empty)

Extractable == llm_chain = "chain" /\ chain_invoke(llm_reply).exc = ""

\* C13: a request whose extraction succeeded ends with a
\* RecommendationResponse, whatever the providers did; an error reaches the
\* caller only when the chain is not ready or the extraction failed.
C13_OnlyTwoErrors ==
    /\ (pc = "done" /\ Extractable) => outcome.kind = "response"
    /\ outcome.kind = "error" =>
          /\ outcome.status = 500
          /\ \/ llm_chain = "None" /\ outcome.detail = <<"LLM not ready.">>
             \/ /\ llm_chain = "chain"
                /\ chain_invoke(llm_reply).exc # ""
                /\ outcome.detail = <<"Error parsing query with LLM: ",
                                       chain_invoke(llm_reply).exc>>

\* a response to a request in which one adapter raised, another read a
\* payload with a record it could not map, and a third was unconfigured
C13_Witness ==
    /\ pc = "done"
    /\ outcome.kind = "response"
    /\ Raisers # {}
    /\ \E a \in Returners \cap HttpAdapters :
          /\ task[a].sent = 1
          /\ upstream[a].success
          /\ \E k \in 1..Len(upstream[a].made) : upstream[a].made[k] = NumFirst(a)
          /\ Len(task[a].jobs) < Len(upstream[a].made)
    /\ \E a \in Returners : Unconfigured(a)

\* the server is up and the chain could not be built
NotReady == llm_chain = "None" /\ pc \notin {"startup", "down"}

\* C14: when llm_chain is None after the lifespan hook, a request only ever
\* waits or has ended with the "LLM not ready." error: the extractor is not
\* invoked, no adapter is launched and the client is not opened; and no step
\* after the lifespan hook changes llm_chain.
C14_NotReady ==
    /\ [](NotReady =>
            /\ pc \in {"idle", "done"}
            /\ pc = "done" => outcome = HTTPException(500, <<"LLM not ready.">>)
            /\ structured_query = NoQuery
            /\ launched = <<>>
            /\ client = "none"
            /\ text_output = <<>>)
    /\ [][pc # "startup" => llm_chain' = llm_chain]_vars

\* the text endpoint refused a request whose backend reply would have been
\* accepted
C14_Witness ==
    /\ NotReady
    /\ pc = "done"
    /\ endpoint = "text"
    /\ llm_reply \in GoodReplies
    /\ outcome.detail = <<"LLM not ready.">>

(***************************************************************************)
(* Order within the buckets (SpecRank).                                    *)
(***************************************************************************)
\* the references of list s follow the order of the aggregate
Ascending(s) == \A j, k \in 1..Len(s) : j < k => s[j] < s[k]

\* C15 as stated: in every response both lists are subsequences of the
\* aggregate.
C15_BothSubsequences ==
    pc \in {"overflow", "respond", "done"} => Ascending(best_matches) /\ Ascending(other_jobs)

\* C15: best_matches is always a subsequence of the aggregate.  other_jobs is
\* one when the overflow step moved nothing; when it moved listings,
\* other_jobs is two subsequences of the aggregate one after the other: the
\* listings that were never candidates, then the moved candidates.
C15_OrderWithinParts ==
    pc \in {"overflow", "respond", "done"} =>
        LET candidates == Range(Candidates) IN
        /\ Ascending(best_matches)
        /\ \A j, k \in 1..Len(other_jobs) :
              j < k =>
                 /\ ~(other_jobs[j] \in candidates /\ other_jobs[k] \notin candidates)
                 /\ (other_jobs[j] \in candidates <=> other_jobs[k] \in candidates)
                       => other_jobs[j] < other_jobs[k]

\* a response whose other_jobs lists a moved candidate after a listing that
\* arrived later
C15_Witness ==
    /\ pc = "done"
    /\ outcome.kind = "response"
    /\ \E j, k \in 1..Len(other_jobs) : j < k /\ other_jobs[j] > other_jobs[k]

\* the steps of a request, in the order of get_recommendation_logic and of
\* the endpoints
StageOrder ==
    {<<"startup", "idle">>, <<"startup", "down">>, <<"idle", "extract">>, <<"idle", "done">>,
     <<"extract", "scrape">>, <<"extract", "done">>, <<"scrape", "gather">>,
     <<"gather", "rank">>, <<"rank", "overflow">>, <<"overflow", "respond">>,
     <<"respond", "done">>, <<"done", "idle">>}

\* C16: the stages of a request follow one another.  Adapters are launched
\* only with the structured query the extractor returned; the buckets are
\* filled only when every adapter has ended and the client is closed; the text
\* is formatted only from the finished response; and a failed extraction ends
\* the request with an error that carries the cause, no adapter launched.
C16_StagesInSequence ==
    /\ [](/\ launched # <<>> =>
               /\ chain_invoke(llm_reply).exc = ""
               /\ structured_query = chain_invoke(llm_reply).val
          /\ (pc \in {"overflow", "respond"} \/ best_matches # <<>> \/ other_jobs # <<>>) =>
               /\ Len(launched) = 9
               /\ \A a \in Range(launched) : task[a].st \in Terminal
               /\ client = "closed"
          /\ text_output # <<>> =>
               /\ pc = "done"
               /\ outcome.kind = "response"
               /\ outcome.total_jobs_found = Len(all_jobs)
               /\ text_output = format_response_as_text(outcome)
          /\ (llm_chain = "chain" /\ chain_invoke(llm_reply).exc # "") =>
               /\ launched = <<>>
               /\ client = "none"
               /\ pc = "done" =>
                     /\ outcome.kind = "error"
                     /\ outcome.detail[2] = chain_invoke(llm_reply).exc)
    /\ [][pc' # pc => <<pc, pc'>> \in StageOrder]_vars

\* the text endpoint answered after extraction, fan-out with listings, and
\* ranking
C16_Witness ==
    /\ pc = "done"
    /\ endpoint = "text"
    /\ text_output # <<>>
    /\ structured_query = chain_invoke(llm_reply).val
    /\ Len(launched) = 9
    /\ all_jobs # <<>>
    /\ outcome.best_matches # <<>>

\* C17: within a request the client is opened once, before any adapter is
\* launched, and closed once, when every launched adapter has returned or
\* raised; an adapter issues its call and reads the answer only while the
\* client is open.
C17_ClientOnce ==
    /\ [](/\ closes <= 1
          /\ (launched # <<>> /\ pc = "gather") => client = "open" /\ closes = 0
          /\ client = "none" => launched = <<>> /\ closes = 0
          /\ client = "closed" =>
                /\ closes = 1
                /\ \A a \in Range(launched) : task[a].st \in Terminal
          /\ Scraped => client = "closed")
    /\ [][/\ (client' = "open" /\ client # "open") =>
                client = "none" /\ launched = <<>> /\ closes = 0
          /\ client = "closed" => client' \in {"closed", "none"}
          /\ closes' # closes => (closes' = closes + 1 /\ client = "open") \/ pc' = "idle"
          /\ (task' # task /\ launched' = launched /\ launched # <<>>) =>
                client = "open" /\ client' = "open"]_vars

\* the client is closed after an adapter raised and another read its answer
C17_Witness ==
    /\ client = "closed"
    /\ closes = 1
    /\ Len(launched) = 9
    /\ Raisers # {}
    /\ \E a \in Returners : task[a].sent = 1 /\ task[a].jobs # <<>>

(***************************************************************************)
(* The overflow step, as a change of the two lists (SpecRank).             *)
(***************************************************************************)
\* C18: the overflow step, when best_matches holds more than 10 candidates,
\* keeps every priority-source candidate, leaves the kept candidates in their
\* order, leaves the other_jobs it finds as the head of the new other_jobs and
\* appends the displaced candidates in their order; with 10 candidates or
\* fewer it changes neither list.
C18_OverflowStep ==
    [][pc = "overflow" =>
         LET Kept(i) == i \in Range(best_matches')
             Displaced(i) == i \notin Range(best_matches')
         IN IF Len(best_matches) > 10
            THEN /\ \A k \in 1..Len(best_matches) :
                       all_jobs[best_matches[k]].source
                           \in {"data.gov.in", "api.setu.in", "ncs.gov.in"}
                           => best_matches[k] \in Range(best_matches')
                 /\ best_matches' = SelectSeq(best_matches, Kept)
                 /\ other_jobs' = other_jobs \o SelectSeq(best_matches, Displaced)
            ELSE best_matches' = best_matches /\ other_jobs' = other_jobs]_vars

\* the step kept a priority-source candidate and appended a displaced
\* candidate to the other_jobs it found
C18_Witness ==
    /\ pc = "respond"
    /\ Len(Candidates) > 10
    /\ \E k \in 1..Len(best_matches) : FromPriority(best_matches[k])
    /\ \E k \in 1..Len(other_jobs) : other_jobs[k] \in Range(Candidates)
    /\ \E k \in 1..Len(other_jobs) : other_jobs[k] \notin Range(Candidates)

(***************************************************************************)
(* Malformed payloads and search terms (SpecAdapter).                      *)
(***************************************************************************)
\* the upstream of adapter a answered with success and a payload that cannot
\* be read: a body that is no JSON or not of the expected shape, or a record
\* that cannot be made a JobListing
Malformed(a) ==
    /\ upstream[a].net = "ok"
    /\ upstream[a].status = 200
    /\ \/ ParseBody(a, upstream[a]).exc # ""
       \/ \E k \in 1..Len(upstream[a].made) :
             ItemOf(a, RecordOf(a, upstream[a].made[k])).exc # ""

\* C19: an adapter whose upstream answered with success and a malformed
\* payload returns an empty list.
C19_MalformedEmpty ==
    \A a \in Range(launched) \cap HttpAdapters :
        (task[a].st \in Terminal /\ task[a].sent = 1 /\ Malformed(a))
            => task[a] = Returned(<<>>, 1)

\* C20: a configured adapter ends by returning a list, whatever the query:
\* deriving its search term raises nothing.
C20_TermNeverRaises ==
    \A a \in Range(launched) :
        (task[a].st \in Terminal /\ ~Unconfigured(a)) => task[a].st = "returned"

\* C21: the description_snippet of every listing an adapter returns has at
\* most 250 characters and the three of the ellipsis, however long the text
\* the provider sent.
C21_SnippetBounded ==
    \A a \in Range(launched) :
        task[a].st = "returned" =>
            \A k \in 1..Len(task[a].jobs) :
                task[a].jobs[k].description_snippet.some
                    => Len(task[a].jobs[k].description_snippet.s) <= 250 + 3

(***************************************************************************)
(* Priority sources in the final lists (SpecRank).                         *)
(***************************************************************************)
\* C22: for a query whose experience_level is 'entry-level', every
\* priority-source listing of the aggregate is in best_matches and not in
\* other_jobs, after the sorting loop, after the overflow step and in the
\* response, whatever the skills and the branch.
C22_EntryLevelPriority ==
    (pc \in {"overflow", "respond", "done"}
        /\ structured_query.experience_level = Some(S_entry_level)) =>
        /\ \A i \in 1..Len(all_jobs) :
              FromPriority(i) => i \in Range(best_matches) /\ i \notin Range(other_jobs)
        /\ outcome.kind = "response" =>
              /\ \A k \in 1..Len(outcome.other_jobs) :
                    outcome.other_jobs[k].source
                        \notin {"data.gov.in", "api.setu.in", "ncs.gov.in"}
              /\ Cardinality({i \in 1..Len(all_jobs) : FromPriority(i)})
                    = Cardinality({k \in 1..Len(outcome.best_matches) :
                                      outcome.best_matches[k].source
                                          \in {"data.gov.in", "api.setu.in", "ncs.gov.in"}})

\* an entry-level query with a concrete skill, in the second branch: the
\* overflow step displaced a candidate and kept a priority-source listing that
\* matches no skill behind ten others
C22_Witness ==
    /\ pc = "done"
    /\ outcome.kind = "response"
    /\ structured_query.experience_level = Some(S_entry_level)
    /\ structured_query.skills = <<S_driver>>
    /\ \E k \in 1..Len(other_jobs) : other_jobs[k] \in Range(Candidates)
    /\ \E k \in 11..Len(best_matches) :
          FromPriority(best_matches[k]) /\ ~Mentions(best_matches[k], S_driver)

\* C23: in the final lists and in the response, a listing of best_matches
\* that is not from a priority source stands among the first 10; so
\* best_matches holds at most 10 such listings and only priority-source
\* listings from position 11 on.
C23_NonPriorityWithinCap ==
    /\ pc \in {"respond", "done"} =>
          /\ \A k \in 1..Len(best_matches) : ~FromPriority(best_matches[k]) => k <= 10
          /\ Cardinality({k \in 1..Len(best_matches) : ~FromPriority(best_matches[k])}) <= 10
    /\ outcome.kind = "response" =>
          \A k \in 11..Len(outcome.best_matches) :
              outcome.best_matches[k].source \in {"data.gov.in", "api.setu.in", "ncs.gov.in"}

\* a response with more than 10 best matches, the tenth of them not from a
\* priority source
C23_Witness ==
    /\ pc = "done"
    /\ outcome.kind = "response"
    /\ Len(outcome.best_matches) > 10
    /\ ~FromPriority(best_matches[10])
    /\ Cardinality({k \in 1..Len(best_matches) : ~FromPriority(best_matches[k])}) = 10
====
